---------------------------- MODULE Spec2Model ----------------------------
(***************************************************************************)
(* Model of the channel-posting bot of src/bot.py (class ChannelBot): the  *)
(* post composer kept in context.user_data, the scheduled-post store, the  *)
(* per-post delivery task send_scheduled_post, cancellation, publish-now,  *)
(* the admission check can_user_post, the plans and their purchase; and of *)
(* the tariff bot of src/main.py.                                          *)
(*                                                                         *)
(* Time.  `now' is the Moscow wall clock in whole seconds since            *)
(* 01.01.2024 00:00 Europe/Moscow (get_moscow_time).  Every datetime the   *)
(* scheduler compares is timezone-aware and in the same zone, so the       *)
(* differences of these second counts are the differences the code         *)
(* computes.                                                               *)
(*                                                                         *)
(* Text.  A message text is a tuple of one-character strings, so that      *)
(* str.strip, str.startswith and datetime.strptime are computed, not       *)
(* assumed.                                                                *)
(*                                                                         *)
(* Objects.  A post is a Python dict that both the list scheduled_posts    *)
(* and a running delivery task may reference.  `heap' maps a reference     *)
(* (1..MaxPosts, in creation order) to the dict's fields, scheduled_posts  *)
(* is the list of references.                                              *)
(*                                                                         *)
(* Scheduling.  Update handlers run one at a time to completion (the       *)
(* Application processes updates sequentially); a delivery task runs       *)
(* between handlers and while a handler awaits.  A delivery task touches   *)
(* only the list lookup and its own post dict, so each handler is one      *)
(* atomic action and each delivery task is cut at its two awaits           *)
(* (asyncio.sleep and the send call).                                      *)
(*                                                                         *)
(* Specifications.  Spec is the scheduler: posts composed with the time    *)
(* menu, cancelled and delivered.  SpecCustomTime is the composer that     *)
(* ends with a free-text time, with subscriptions.  SpecPublish is the     *)
(* composer that ends with publish-now, with subscriptions and channel     *)
(* registration.  SpecIds is the post store over a wall clock that can be  *)
(* set back.  SpecAdmission is the admission of users whose subscriptions  *)
(* are granted, run out and are checked.  SpecChannels is the channel      *)
(* table with the private channel of a plan.  SpecQuota is the daily       *)
(* counter over two calendar days, with the plan-settings dialogue.        *)
(* SpecComposer is the composer dialogue with all three time choices.      *)
(* SpecBroadcast is the administrator's broadcast dialogue; in the other   *)
(* specifications it is not opened, so message_handler never takes the     *)
(* branch that serves it.  SpecMidnight is a plan of one post a day over a *)
(* day change.  SpecPurchase is the purchase of a plan through its private *)
(* channel.  SpecCancelQuota is the plan of one post a day with the cancel *)
(* button.  SpecFair is Spec under fair scheduling of the delivery tasks.  *)
(* SpecChannelText sends channel ids in every state of the dialogues of    *)
(* message_handler.  SpecBroadcastPlan is the broadcast next to the plan   *)
(* settings.                                                               *)
(*                                                                         *)
(* The aiogram application.  main.py runs a second bot, independent of the *)
(* first: the routers of admin.py and subscription.py over the SQLite file *)
(* of database.py.  SpecRouter is this application: its handlers run one   *)
(* at a time, each against a database.db that holds the three tables of    *)
(* init_db.  init_db itself, as written, raises on its first CREATE TABLE  *)
(* statement (it carries '#' comments, which SQLite rejects), so the       *)
(* tables are not made by main.py; the specification describes the         *)
(* handlers once the tables exist.  SpecEdit is the edit dialogue of a     *)
(* tariff, SpecUsers the functions of database.py on table users.          *)
(***************************************************************************)
EXTENDS Integers, Sequences, FiniteSets, Bags, TLC

---------------------------------------------------------------------------
(* Program constants *)

\* user ids are written as strings: the administrator's id exceeds the
\* checker's integers
ADMIN_ID == "6646433980"
\* the minimal lead time of a custom time, in seconds
MinLeadSeconds == 60
\* the plan limit that means "unlimited"
NoLimit == -1
\* the model epoch: `now' counts seconds from 1 January of this year, 00:00
EpochYear == 2000 + 24

(* Bounds of the model *)

\* number of posts that may be created (size of the heap)
MaxPosts == 2
\* number of clock advances
MaxTicks == 1
\* number of publish-now dispatches
MaxPublish == 2

\* a user that is not the administrator
User1 == "1001"
\* no user (None)
NoUser == ""
Users == {ADMIN_ID, User1}

\* the clock advances by one of these amounts (seconds): an hour at a time
\* where posts are delivered, half a minute at a time where custom times
\* are entered
HourSteps == {3600}
\* 31 days: more than the duration of every plan
MonthSteps == {31 * 86400}
HalfMinuteSteps == {30}
\* one day: the next calendar day
DaySteps == {86400}

\* the relative offset of the time menu that the model offers, in minutes
TimeMenu == {60}

---------------------------------------------------------------------------
(* Text helpers *)

Space == " "

RECURSIVE LStrip(_)
LStrip(s) == IF s # <<>> /\ Head(s) = Space THEN LStrip(Tail(s)) ELSE s

RECURSIVE RStrip(_)
RStrip(s) ==
    IF s # <<>> /\ s[Len(s)] = Space THEN RStrip(SubSeq(s, 1, Len(s) - 1)) ELSE s

\* str.strip()
Strip(s) == RStrip(LStrip(s))

\* str.startswith(prefix)
StartsWith(s, prefix) ==
    /\ Len(s) >= Len(prefix)
    /\ SubSeq(s, 1, Len(prefix)) = prefix

DigitChars == {"0", "1", "2", "3", "4", "5", "6", "7", "8", "9"}

DigitVal(c) ==
    CASE c = "0" -> 0 [] c = "1" -> 1 [] c = "2" -> 2 [] c = "3" -> 3
      [] c = "4" -> 4 [] c = "5" -> 5 [] c = "6" -> 6 [] c = "7" -> 7
      [] c = "8" -> 8 [] c = "9" -> 9

AllDigits(s) == \A i \in 1..Len(s) : s[i] \in DigitChars

RECURSIVE ToInt(_)
ToInt(s) == IF s = <<>> THEN 0
            ELSE 10 * ToInt(SubSeq(s, 1, Len(s) - 1)) + DigitVal(s[Len(s)])

\* positions of character c in s
Positions(s, c) == {i \in 1..Len(s) : s[i] = c}

\* str.split(c)
RECURSIVE Split(_, _)
Split(s, c) ==
    IF Positions(s, c) = {} THEN << s >>
    ELSE LET i == CHOOSE k \in Positions(s, c) : \A j \in Positions(s, c) : k <= j
         IN  << SubSeq(s, 1, i - 1) >> \o Split(SubSeq(s, i + 1, Len(s)), c)

\* int(s) for decimal texts: blanks around, a sign, digits; ok is false
\* where int raises ValueError
IntOf(s) ==
    LET t == Strip(s)
        signed == t # <<>> /\ Head(t) \in {"-", "+"}
        body == IF signed THEN Tail(t) ELSE t
    IN  IF body = <<>> \/ ~AllDigits(body) THEN [ok |-> FALSE, v |-> 0]
        ELSE [ok |-> TRUE,
              v |-> IF signed /\ Head(t) = "-" THEN 0 - ToInt(body)
                    ELSE ToInt(body)]

\* float(s) does not raise, for decimal texts: blanks around, a sign,
\* digits with at most one point
FloatOk(s) ==
    LET t == Strip(s)
        signed == t # <<>> /\ Head(t) \in {"-", "+"}
        body == IF signed THEN Tail(t) ELSE t
        digits == SelectSeq(body, LAMBDA c : c # ".")
    IN  /\ digits # <<>>
        /\ AllDigits(digits)
        /\ Len(body) - Len(digits) <= 1

---------------------------------------------------------------------------
(* parse_custom_time: strptime(time_str, '%d.%m.%Y-%H.%M') localized to    *)
(* Europe/Moscow.  The value is Parsed(t), t the number of seconds since   *)
(* the model epoch, or Invalid where strptime raises ValueError.           *)

Invalid == [ok |-> FALSE, t |-> 0]
Parsed(t) == [ok |-> TRUE, t |-> t]

IsLeap(y) == (y % 4 = 0 /\ y % 100 # 0) \/ y % 400 = 0

DaysInMonth(y, m) ==
    CASE m \in {1, 3, 5, 7, 8, 10, 12} -> 31
      [] m \in {4, 6, 9, 11} -> 30
      [] m = 2 -> IF IsLeap(y) THEN 29 ELSE 28

DaysInYear(y) == IF IsLeap(y) THEN 366 ELSE 365

RECURSIVE DaysBeforeMonth(_, _)
DaysBeforeMonth(y, m) ==
    IF m = 1 THEN 0 ELSE DaysBeforeMonth(y, m - 1) + DaysInMonth(y, m - 1)

\* days from 1 January EpochYear to 1 January y (negative before the epoch)
RECURSIVE DaysBeforeYear(_)
DaysBeforeYear(y) ==
    IF y = EpochYear THEN 0
    ELSE IF y > EpochYear THEN DaysBeforeYear(y - 1) + DaysInYear(y - 1)
    ELSE DaysBeforeYear(y + 1) - DaysInYear(y)

\* the five fields of the format: the text must be D.M.Y-H.M with the
\* separators exactly there; each field is a run of digits of the width the
\* directive accepts (%d, %m, %H, %M: one or two digits, %Y: four)
FieldsOf(s) ==
    LET dots == Positions(s, ".")
        dashes == Positions(s, "-")
    IN  IF Cardinality(dots) # 3 \/ Cardinality(dashes) # 1 THEN <<>>
        ELSE LET d1 == CHOOSE i \in dots : \A j \in dots : i <= j
                 d3 == CHOOSE i \in dots : \A j \in dots : i >= j
                 d2 == CHOOSE i \in dots : i # d1 /\ i # d3
                 h  == CHOOSE i \in dashes : TRUE
             IN  IF ~(d1 < d2 /\ d2 < h /\ h < d3) THEN <<>>
                 ELSE << SubSeq(s, 1, d1 - 1), SubSeq(s, d1 + 1, d2 - 1),
                         SubSeq(s, d2 + 1, h - 1), SubSeq(s, h + 1, d3 - 1),
                         SubSeq(s, d3 + 1, Len(s)) >>

FieldOk(f, minLen, maxLen) ==
    /\ Len(f) >= minLen
    /\ Len(f) <= maxLen
    /\ AllDigits(f)

parse_custom_time(time_str) ==
    LET f == FieldsOf(time_str)
    IN  IF f = <<>> THEN Invalid
        ELSE IF ~(/\ FieldOk(f[1], 1, 2) /\ FieldOk(f[2], 1, 2)
                  /\ FieldOk(f[3], 4, 4)
                  /\ FieldOk(f[4], 1, 2) /\ FieldOk(f[5], 1, 2)) THEN Invalid
        ELSE LET d  == ToInt(f[1])
                 mo == ToInt(f[2])
                 y  == ToInt(f[3])
                 hh == ToInt(f[4])
                 mi == ToInt(f[5])
             IN  IF \/ mo < 1 \/ mo > 12 \/ y < 1 \/ hh > 23 \/ mi > 59
                    \/ d < 1
                 THEN Invalid
                 ELSE IF d > DaysInMonth(y, mo) THEN Invalid
                 ELSE Parsed(((DaysBeforeYear(y) + DaysBeforeMonth(y, mo) + (d - 1)) * 24
                               + hh) * 3600 + mi * 60)

---------------------------------------------------------------------------
(* Inputs *)

\* channel identifiers a user can type or select
ChanA == <<"@", "a">>
ChanB == <<"-", "1", "0", "0", "7">>
ChannelIds == {ChanA, ChanB}

\* custom time texts: 60 s after the epoch, written with zero padding and
\* written without it between blanks, a past date, and two texts strptime
\* rejects (minute 60, 30 February)
Time0001 == <<"0","1",".","0","1",".","2","0","2","4","-","0","0",".","0","1">>
Time0001Bare == <<" ","1",".","1",".","2","0","2","4","-","0",".","1"," ">>
TimePast == <<"2","7",".","1","1",".","2","0","2","3","-","1","9",".","3","0">>
TimeBad1 == <<"0","1",".","0","1",".","2","0","2","4","-","0","0",".","6","0">>
TimeBad2 == <<"3","0",".","0","2",".","2","0","2","4","-","0","0",".","0","0">>
TimeTexts == {Time0001, Time0001Bare, TimePast, TimeBad1, TimeBad2}

\* the private channel of a plan, as the administrator gives it to /setup
PrivChan == <<"@", "p">>

\* plan settings 'price | posts a day | channels | days': no limit on the
\* posts and one channel, and a text with a field that is no number
PlanTextOneChannel == <<"5", "|", "-", "1", "|", " ", "1", "|", "3", "0">>
PlanTextBad == <<"5", "|", "x", "|", "1", "|", "3", "0">>
PlanTexts == {PlanTextOneChannel, PlanTextBad}
\* plan settings with one post a day and no limit on the channels
PlanTextOnePost == <<"5", "|", "1", "|", "-", "1", "|", "3", "0">>

\* a text of four fields that starts like a channel name
PlanTextAt == <<"@", "|", "1", "|", "1", "|", "1">>

TextHi == <<"h", "i">>

\* an incoming message: `text' is message.text (<<>> for None), `kind' tells
\* which attachment it carries
TextMessage(t) == [kind |-> "text", text |-> t, file_id |-> "", caption |-> <<>>]
PhotoMessage == [kind |-> "photo", text |-> <<>>, file_id |-> "F1", caption |-> <<"c">>]
StickerMessage == [kind |-> "other", text |-> <<>>, file_id |-> "", caption |-> <<>>]

\* messages that carry the content of a post, or nothing a post can carry
ContentMessages == {TextMessage(TextHi), PhotoMessage, StickerMessage}

\* messages of a composer conversation that ends with a custom time; where
\* the composer waits for content, a time text is the text of the post
ComposerMessages ==
    {StickerMessage} \cup {TextMessage(t) : t \in {Time0001, TimePast, TimeBad1}}

\* channel registrations
ChannelMessages == {TextMessage(t) : t \in ChannelIds}

---------------------------------------------------------------------------
(* State *)

VARIABLES
    now,                \* the clock (get_moscow_time, datetime.now)
    ticks,              \* number of clock advances so far
    subscription_plans, \* self.subscription_plans
    waiting_for_plan_settings, \* self.waiting_for_plan_settings
    waiting_for_broadcast, \* self.waiting_for_broadcast
    broadcast_calls,    \* bag of the send calls of the last broadcast
    broadcast_reply,    \* the counts that the last broadcast reported
    channels,           \* self.channels (the keys of the dict)
    scheduled_posts,    \* self.scheduled_posts: list of references into heap
    heap,               \* the post dicts ever created
    created,            \* number of post dicts created
    stamp,              \* the next reading of datetime.now().timestamp()
    timers,             \* the send_scheduled_post task of each post
    user_subscriptions, \* self.user_subscriptions
    user_stats,         \* self.user_stats
    user_data,          \* context.user_data of each user
    sends,              \* bag of the calls made on the send interface
    custom_time_reply,  \* the last answer of message_handler to a custom time
    invite_links,       \* self.invite_links (the keys of the dict)
    admin_alerts,       \* the alerts sent to ADMIN_ID by the purchase path
    subscribe_reply,    \* what the last subscribe menu showed
    db_tariffs,         \* database.db, table tariffs (row i has id i)
    db_users,           \* database.db, table users
    db_monitored_channels, \* database.db, table monitored_channels
    fsm                 \* the FSMContext of each user of the aiogram router

vars == << now, ticks, subscription_plans, waiting_for_plan_settings, channels, scheduled_posts, heap,
           created, stamp, timers, user_subscriptions, user_stats, user_data,
           sends, custom_time_reply, waiting_for_broadcast, broadcast_calls,
           broadcast_reply, invite_links, admin_alerts, subscribe_reply,
           db_tariffs, db_users, db_monitored_channels, fsm >>

clockVars == << now, ticks >>
planVars == << subscription_plans, waiting_for_plan_settings >>
broadcastVars == << waiting_for_broadcast, broadcast_calls, broadcast_reply >>
purchaseVars == << invite_links, admin_alerts, subscribe_reply >>
routerVars == << db_tariffs, db_users, db_monitored_channels, fsm >>
botVars == << now, ticks, subscription_plans, waiting_for_plan_settings,
              channels, scheduled_posts, heap, created, stamp, timers,
              user_subscriptions, user_stats, user_data, sends,
              custom_time_reply, waiting_for_broadcast, broadcast_calls,
              broadcast_reply, invite_links, admin_alerts, subscribe_reply >>
storeVars == << scheduled_posts, heap, created, stamp, timers >>
accountVars == << user_subscriptions, user_stats >>

Handles == 1..MaxPosts

DEFAULT_SUBSCRIPTION_PLANS ==
    [ basic    |-> [posts_per_day |-> 2, channels_limit |-> 1,
                    channel_id |-> <<>>, duration_days |-> 30],
      standard |-> [posts_per_day |-> 6, channels_limit |-> 3,
                    channel_id |-> <<>>, duration_days |-> 30],
      premium  |-> [posts_per_day |-> NoLimit, channels_limit |-> NoLimit,
                    channel_id |-> <<>>, duration_days |-> 30] ]

PlanKeys == DOMAIN DEFAULT_SUBSCRIPTION_PLANS

NoData == [type |-> "none", text |-> <<>>, file_id |-> "", caption |-> <<>>]

NoPost == [id |-> <<>>, channel_id |-> <<>>, post_data |-> NoData,
           scheduled_time |-> 0, status |-> "none", user_id |-> NoUser]

NoTimer == [pc |-> "none", post_id |-> <<>>, schedule_time |-> 0,
            wake_at |-> 0, post |-> 0]

\* self.waiting_for_plan_settings is None
NoPlanSettings == [user_id |-> NoUser, plan_type |-> ""]

\* no broadcast has reported yet
NoReport == [success_count |-> -1, error_count |-> -1]

\* "plan" is "free" where the dict has no entry for the user
NoSubscription == [plan |-> "free", expires_at |-> 0]

NoStats == [present |-> FALSE, posts_today |-> 0, last_reset |-> 0]

\* an empty context.user_data; .get() reads an absent flag as false
EmptyUserData == [selected_channel |-> <<>>, post_data |-> NoData,
                  waiting_for_content |-> FALSE,
                  waiting_for_custom_time |-> FALSE]

\* no subscribe menu has been shown yet
NoReply == [user_id |-> NoUser, plan_type |-> "", outcome |-> "none"]

\* admin_ids of admin_command
admin_ids == {"123456789", "987654321"}
RouterAdmin == "123456789"
\* the users of the aiogram router
RouterUsers == {RouterAdmin, User1}

\* no row of table users; a NULL tariff_id is 0, a NULL subscription_end
\* is -1, a date is the number of its calendar day
NoUserRow == [present |-> FALSE, tariff_id |-> 0, messages_left |-> 0,
              subscription_end |-> -1]

\* an FSMContext after state.clear(): no state, no data
NoFsmData == [name |-> <<>>, channel_link |-> <<>>, channel_id |-> <<>>,
              limit |-> 0, edit_field |-> "", tariff_id |-> 0]
NoFsm == [state |-> "none", data |-> NoFsmData]

\* ChannelBot.__init__ with no data file on disk
ChannelBotInit ==
    /\ now = 0
    /\ ticks = 0
    /\ subscription_plans = DEFAULT_SUBSCRIPTION_PLANS
    /\ waiting_for_plan_settings = NoPlanSettings
    /\ channels = {}
    /\ scheduled_posts = <<>>
    /\ heap = [h \in Handles |-> NoPost]
    /\ created = 0
    /\ stamp = 0
    /\ timers = [h \in Handles |-> NoTimer]
    /\ user_subscriptions = [u \in Users |-> NoSubscription]
    /\ user_stats = [u \in Users |-> NoStats]
    /\ user_data = [u \in Users |-> EmptyUserData]
    /\ sends = EmptyBag
    /\ custom_time_reply = "none"
    /\ waiting_for_broadcast = FALSE
    /\ broadcast_calls = EmptyBag
    /\ broadcast_reply = NoReport
    /\ invite_links = {}
    /\ admin_alerts = {}
    /\ subscribe_reply = NoReply

\* the channel bot of bot.py and a database.db without rows
Init ==
    /\ ChannelBotInit
    /\ db_tariffs = <<>>
    /\ db_users = [u \in RouterUsers |-> NoUserRow]
    /\ db_monitored_channels = <<>>
    /\ fsm = [u \in RouterUsers |-> NoFsm]

---------------------------------------------------------------------------
(* Clock *)

\* the calendar day of a clock value (datetime.date())
DateOf(t) == t \div 86400

Tick(d) ==
    /\ ticks < MaxTicks
    /\ now' = now + d
    /\ ticks' = ticks + 1
    /\ UNCHANGED << planVars, custom_time_reply, channels, storeVars,
                    accountVars, user_data, sends,
                    broadcastVars, purchaseVars, routerVars >>

\* the wall clock is set back (a step of the time service): the next
\* reading of datetime.now() repeats an earlier one
ClockSetBack ==
    /\ stamp > 0
    /\ stamp' = stamp - 1
    /\ UNCHANGED << clockVars, planVars, custom_time_reply,
                    channels, scheduled_posts, heap, created, timers,
                    accountVars, user_data, sends,
                    broadcastVars, purchaseVars, routerVars >>

---------------------------------------------------------------------------
(* Subscription manager *)

is_admin(user_id) == user_id = ADMIN_ID

\* variant: the table is read for every user
StoredPlanMutant(user_id) == user_subscriptions[user_id]

get_user_plan(user_id) ==
    IF is_admin(user_id) THEN [plan |-> "admin", expires_at |-> 0]
    ELSE user_subscriptions[user_id]

\* datetime.fromisoformat(expires_at).replace(tzinfo=MOSCOW_TZ): the stored
\* wall time re-read under the zone's first (local mean time, +02:30)
\* offset, i.e. 30 minutes later than the instant that was stored
PytzLmtLag == 30 * 60

is_subscription_expired(user_id) ==
    IF user_subscriptions[user_id].plan = "free" THEN TRUE
    ELSE now > user_subscriptions[user_id].expires_at + PytzLmtLag

\* user_stats as can_user_post leaves it: the entry is created, and reset
\* when its day is not today, only on the path that reaches the counter
StatsForToday(st) ==
    LET s1 == IF ~st.present
              THEN [present |-> TRUE, posts_today |-> 0, last_reset |-> DateOf(now)]
              ELSE st
    IN  IF s1.last_reset # DateOf(now)
        THEN [s1 EXCEPT !.posts_today = 0, !.last_reset = DateOf(now)]
        ELSE s1

ReachesCounter(user_id) ==
    /\ ~is_admin(user_id)
    /\ get_user_plan(user_id).plan # "free"
    /\ ~is_subscription_expired(user_id)
    /\ LET cfg == subscription_plans[get_user_plan(user_id).plan]
       IN  /\ ~(cfg.channels_limit # NoLimit
                  /\ Cardinality(channels) >= cfg.channels_limit)
           /\ cfg.posts_per_day # NoLimit

can_user_post(user_id) ==
    IF is_admin(user_id) THEN TRUE
    ELSE IF get_user_plan(user_id).plan = "free" THEN FALSE
    ELSE IF is_subscription_expired(user_id) THEN FALSE
    ELSE LET cfg == subscription_plans[get_user_plan(user_id).plan]
         IN  IF cfg.channels_limit # NoLimit
                  /\ Cardinality(channels) >= cfg.channels_limit THEN FALSE
             ELSE IF cfg.posts_per_day = NoLimit THEN TRUE
             ELSE StatsForToday(user_stats[user_id]).posts_today < cfg.posts_per_day

StatsAfterCanUserPost(user_id) ==
    IF ReachesCounter(user_id)
    THEN [user_stats EXCEPT ![user_id] = StatsForToday(user_stats[user_id])]
    ELSE user_stats

\* variant: the post is not counted
NoCountMutant(stats, user_id) == stats

\* the counter after increment_user_posts on the table `stats'
increment_user_posts(stats, user_id) ==
    IF is_admin(user_id) THEN stats
    ELSE LET st == IF ~stats[user_id].present
                   THEN [present |-> TRUE, posts_today |-> 0,
                         last_reset |-> DateOf(now)]
                   ELSE stats[user_id]
         IN  [stats EXCEPT ![user_id] = [st EXCEPT !.posts_today = @ + 1]]

---------------------------------------------------------------------------
(* The send interface *)

\* the call made for a post: the method is chosen by post_data['type']
SendCall(by, channel_id, post_data, at) ==
    [ by      |-> by,
      chat_id |-> channel_id,
      method  |-> CASE post_data.type = "text" -> "send_message"
                    [] post_data.type = "photo" -> "send_photo"
                    [] post_data.type = "video" -> "send_video"
                    [] post_data.type = "document" -> "send_document"
                    [] OTHER -> "none",
      payload |-> IF post_data.type = "text" THEN post_data.text
                  ELSE << post_data.file_id >>,
      caption |-> IF post_data.type = "text" THEN <<>> ELSE post_data.caption,
      at      |-> at ]

\* the calls made by delivery task h (by publish_now: h = 0)
CallsBy(h) == {c \in BagToSet(sends) : c.by = h}

RECURSIVE SumCopies(_, _)
SumCopies(B, S) ==
    IF S = {} THEN 0
    ELSE LET c == CHOOSE x \in S : TRUE
         IN  CopiesIn(c, B) + SumCopies(B, S \ {c})

NumCallsBy(h) == SumCopies(sends, CallsBy(h))

---------------------------------------------------------------------------
(* The scheduled-post store *)

\* f"post_{len(self.scheduled_posts)}_{datetime.now().timestamp()}": the
\* length of the list and the reading of the wall clock
PostId(posts, timestamp) == << Len(posts), timestamp >>

\* variant: the first post of the list, whatever the id
FirstPostMutant(posts, objs, post_id) ==
    IF posts = <<>> THEN 0 ELSE posts[1]

\* variant: the post dict of this id, in the list or not
StalePostMutant(posts, objs, post_id) ==
    IF \E h \in DOMAIN objs : objs[h].id = post_id
    THEN CHOOSE h \in DOMAIN objs : objs[h].id = post_id
    ELSE 0

\* next((p for p in self.scheduled_posts if p['id'] == post_id), None):
\* the first post of the list with this id, 0 for None
FindPost(posts, objs, post_id) ==
    LET hits == {i \in 1..Len(posts) : objs[posts[i]].id = post_id}
    IN  IF hits = {} THEN 0
        ELSE posts[CHOOSE i \in hits : \A j \in hits : i <= j]

InStore(post_id) == FindPost(scheduled_posts, heap, post_id) # 0

\* the ids of all posts ever created (what a cancel button may carry)
KnownIds == {heap[h].id : h \in 1..created}

\* _create_scheduled_post, and its copy in message_handler: append the
\* record, start the delivery task, count the post, clear the composer
CreatePost(user_id, post_data, channel_id, schedule_time) ==
    LET h == created + 1
        post_id == PostId(scheduled_posts, stamp)
    IN  /\ created < MaxPosts
        /\ heap' = [heap EXCEPT ![h] =
                      [id |-> post_id, channel_id |-> channel_id,
                       post_data |-> post_data,
                       scheduled_time |-> schedule_time,
                       status |-> "scheduled", user_id |-> user_id]]
        /\ scheduled_posts' = Append(scheduled_posts, h)
        /\ created' = h
        \* the handler awaits the platform's reply before it ends: the
        \* wall clock has gone on when the next handler reads it
        /\ stamp' = stamp + 1
        /\ timers' = [timers EXCEPT ![h] =
                        [pc |-> "start", post_id |-> post_id,
                         schedule_time |-> schedule_time,
                         wake_at |-> 0, post |-> 0]]
        /\ user_stats' = increment_user_posts(user_stats, user_id)
        /\ user_data' = [user_data EXCEPT ![user_id] = EmptyUserData]

\* variant: the oldest record is dropped, whatever the id
PopFirstMutant(posts, objs, post_id) ==
    IF posts = <<>> THEN posts ELSE Tail(posts)

\* cancel_scheduled_post: the list without the posts of this id; the caller
\* is not looked at
RemovePost(posts, objs, post_id) ==
    SelectSeq(posts, LAMBDA h : objs[h].id # post_id)

\* variant: the record is kept and marked, whatever its status
MarkCancelledMutant(user_id, post_id) ==
    /\ heap' = [h \in Handles |->
                  IF heap[h].id = post_id
                  THEN [heap[h] EXCEPT !.status = "cancelled"] ELSE heap[h]]
    /\ UNCHANGED << clockVars, planVars, custom_time_reply,
                    channels, scheduled_posts, created, stamp, timers,
                    accountVars, user_data, sends,
                    broadcastVars, purchaseVars, routerVars >>

\* variant: the cancel button also cancels the delivery tasks of the post
AbortingCancelMutant(user_id, post_id) ==
    /\ scheduled_posts' = RemovePost(scheduled_posts, heap, post_id)
    /\ timers' = [h \in Handles |->
                    IF timers[h].post_id = post_id /\ timers[h].pc # "none"
                    THEN [timers[h] EXCEPT !.pc = "done"] ELSE timers[h]]
    /\ UNCHANGED << clockVars, planVars, custom_time_reply,
                    channels, heap, created, stamp, accountVars,
                    user_data, sends,
                    broadcastVars, purchaseVars, routerVars >>

\* callback cancel_post_<id>
CancelScheduledPost(user_id, post_id) ==
    /\ scheduled_posts' = RemovePost(scheduled_posts, heap, post_id)
    /\ UNCHANGED << clockVars, planVars, custom_time_reply,
                    channels, heap, created, stamp, timers, accountVars,
                    user_data, sends,
                    broadcastVars, purchaseVars, routerVars >>

---------------------------------------------------------------------------
(* The delivery task send_scheduled_post(post_id, schedule_time) *)

\* variant: the task never sleeps
NoDelayMutant(schedule_time, now_moscow) == 0

\* the time to sleep, in seconds
Delay(schedule_time, now_moscow) ==
    IF schedule_time <= now_moscow THEN 0 ELSE schedule_time - now_moscow

\* from the wake-up to the send call: the post is read again by id; without
\* it the task ends, with it the send call is made and awaited
Deliver(h) ==
    LET p == FindPost(scheduled_posts, heap, timers[h].post_id)
    IN  IF p = 0
        THEN /\ timers' = [timers EXCEPT ![h].pc = "done"]
             /\ UNCHANGED sends
        ELSE /\ timers' = [timers EXCEPT ![h].pc = "sending", ![h].post = p]
             /\ sends' = sends (+) SetToBag({SendCall(h, heap[p].channel_id,
                                                      heap[p].post_data, now)})

\* the task's first step: the delay is computed; a zero delay goes on to
\* the delivery without suspending
StartDelivery(h) ==
    /\ timers[h].pc = "start"
    /\ LET delay == Delay(timers[h].schedule_time, now)
       IN  IF delay > 0
           THEN /\ timers' = [timers EXCEPT ![h].pc = "sleeping",
                                            ![h].wake_at = now + delay]
                /\ UNCHANGED sends
           ELSE Deliver(h)
    /\ UNCHANGED << clockVars, planVars, custom_time_reply,
                    channels, scheduled_posts, heap, created, stamp,
                    accountVars, user_data,
                    broadcastVars, purchaseVars, routerVars >>

\* asyncio.sleep(delay) returns once the delay has passed
WakeDelivery(h) ==
    /\ timers[h].pc = "sleeping"
    /\ now >= timers[h].wake_at
    /\ Deliver(h)
    /\ UNCHANGED << clockVars, planVars, custom_time_reply,
                    channels, scheduled_posts, heap, created, stamp,
                    accountVars, user_data,
                    broadcastVars, purchaseVars, routerVars >>

\* variant: the exception leaves the task
EscapingErrorMutant(t, objs) ==
    << [t EXCEPT !.pc = "failed"], objs >>

\* variant: the exception ends the task and the post keeps its status
UnmarkedErrorMutant(t, objs) ==
    << [t EXCEPT !.pc = "done"], objs >>

\* except Exception: the post the task holds gets status 'error'
OnSendError(t, objs) ==
    << [t EXCEPT !.pc = "done"],
       IF t.post # 0 THEN [objs EXCEPT ![t.post].status = "error"] ELSE objs >>

\* the send call returns (ok) or raises
SendReturns(h, ok) ==
    /\ timers[h].pc = "sending"
    /\ IF ok
       THEN /\ heap' = [heap EXCEPT ![timers[h].post].status = "sent"]
            /\ timers' = [timers EXCEPT ![h].pc = "done"]
       ELSE LET r == OnSendError(timers[h], heap)
            IN  /\ timers' = [timers EXCEPT ![h] = r[1]]
                /\ heap' = r[2]
    /\ UNCHANGED << clockVars, planVars, custom_time_reply,
                    channels, scheduled_posts, created, stamp, accountVars,
                    user_data, sends,
                    broadcastVars, purchaseVars, routerVars >>

---------------------------------------------------------------------------
(* The composer: button_handler and message_handler *)

\* /start: context.user_data.clear()
Start(user_id) ==
    /\ user_data' = [user_data EXCEPT ![user_id] = EmptyUserData]
    /\ UNCHANGED << clockVars, planVars, custom_time_reply,
                    channels, storeVars, accountVars, sends,
                    broadcastVars, purchaseVars, routerVars >>

\* the model follows one composer conversation at a time: a user opens
\* one only while every other user's context.user_data is empty
OthersIdle(user_id) ==
    \A v \in Users \ {user_id} : user_data[v] = EmptyUserData

\* callback select_channel_<id>
SelectChannel(user_id, channel_id) ==
    /\ OthersIdle(user_id)
    /\ user_data' = [user_data EXCEPT ![user_id].selected_channel = channel_id,
                                      ![user_id].waiting_for_content = TRUE]
    /\ UNCHANGED << clockVars, planVars, custom_time_reply,
                    channels, storeVars, accountVars, sends,
                    broadcastVars, purchaseVars, routerVars >>

\* callback custom_time
RequestCustomTime(user_id) ==
    /\ OthersIdle(user_id)
    /\ user_data' = [user_data EXCEPT ![user_id].waiting_for_custom_time = TRUE]
    /\ UNCHANGED << clockVars, planVars, custom_time_reply,
                    channels, storeVars, accountVars, sends,
                    broadcastVars, purchaseVars, routerVars >>

\* callback time_<minutes>
SchedulePost(user_id, time_minutes) ==
    LET ud == user_data[user_id]
    IN  /\ IF ud.post_data = NoData \/ ud.selected_channel = <<>>
           THEN UNCHANGED << storeVars, user_stats, user_data >>
           ELSE CreatePost(user_id, ud.post_data, ud.selected_channel,
                           now + time_minutes * 60)
        /\ UNCHANGED << clockVars, planVars, custom_time_reply,
                        channels, user_subscriptions, sends,
                    broadcastVars, purchaseVars, routerVars >>

\* callback publish_now; `ok' tells whether the send call returns or raises
PublishNow(user_id, ok) ==
    LET ud == user_data[user_id]
    IN  /\ IF ud.post_data = NoData \/ ud.selected_channel = <<>>
           THEN UNCHANGED << user_stats, user_data, sends >>
           ELSE /\ NumCallsBy(0) < MaxPublish
                /\ sends' = sends (+) SetToBag({SendCall(0, ud.selected_channel,
                                                         ud.post_data, now)})
                /\ IF ok
                   THEN /\ user_stats' = increment_user_posts(user_stats, user_id)
                        /\ user_data' = [user_data EXCEPT
                              ![user_id].post_data = NoData,
                              ![user_id].selected_channel = <<>>,
                              ![user_id].waiting_for_content = FALSE]
                   ELSE UNCHANGED << user_stats, user_data >>
        /\ UNCHANGED << clockVars, planVars, custom_time_reply,
                        channels, storeVars, user_subscriptions,
                    broadcastVars, purchaseVars, routerVars >>

\* callback set_subscription_<user>_<plan>
AdminSetSubscription(user_id, target, plan_type) ==
    /\ IF ~is_admin(user_id) THEN UNCHANGED user_subscriptions
       ELSE IF plan_type = "free"
       THEN user_subscriptions' = [user_subscriptions EXCEPT ![target] = NoSubscription]
       ELSE user_subscriptions' = [user_subscriptions EXCEPT ![target] =
                [plan |-> plan_type,
                 expires_at |-> now + subscription_plans[plan_type].duration_days
                                        * 86400]]
    /\ UNCHANGED << clockVars, planVars, custom_time_reply,
                    channels, storeVars, user_stats, user_data, sends,
                    broadcastVars, purchaseVars, routerVars >>

\* variant: no text is the id of a channel
NoChannelTextMutant(t) == FALSE

\* message.text of a channel registration
IsChannelText(t) ==
    t # <<>> /\ (StartsWith(t, <<"@">>) \/ StartsWith(t, <<"-", "1", "0", "0">>))

\* variant: the platform is asked although the plan has no channel
UngatedCheckMutant(user_id, plan_type, member) == member

\* check_channel_subscription: `member' is the platform's answer
check_channel_subscription(user_id, plan_type, member) ==
    IF subscription_plans[plan_type].channel_id = <<>> THEN FALSE ELSE member

\* the command /setup <plan> <channel id> <name>, the platform confirming
\* the channel and the bot's rights in it
SetupChannel(user_id, plan_type, channel_id) ==
    /\ IF is_admin(user_id) /\ plan_type \in PlanKeys /\ IsChannelText(channel_id)
       THEN subscription_plans' =
                [subscription_plans EXCEPT ![plan_type].channel_id = channel_id]
       ELSE UNCHANGED subscription_plans
    /\ UNCHANGED << clockVars, waiting_for_plan_settings, custom_time_reply,
                    channels, storeVars, accountVars, user_data, sends,
                    broadcastVars, purchaseVars, routerVars >>

\* callback delete_channel_<id>
DeleteChannel(user_id, channel_id) ==
    /\ channels' = channels \ {channel_id}
    /\ UNCHANGED << clockVars, planVars, custom_time_reply,
                    storeVars, accountVars, user_data, sends,
                    broadcastVars, purchaseVars, routerVars >>

\* the channels that list_channels_menu shows to a user, each with its
\* delete button
list_channels_menu(user_id) == channels

\* the command /check_subscription
CheckSubscription(user_id, member) ==
    LET plan == get_user_plan(user_id).plan
    IN  /\ IF is_admin(user_id) \/ plan = "free"
           THEN UNCHANGED user_subscriptions
           ELSE IF ~check_channel_subscription(user_id, plan, member)
                     \/ is_subscription_expired(user_id)
           THEN user_subscriptions' =
                    [user_subscriptions EXCEPT ![user_id] = NoSubscription]
           ELSE UNCHANGED user_subscriptions
        /\ UNCHANGED << clockVars, planVars, custom_time_reply,
                        channels, storeVars, user_stats, user_data, sends,
                    broadcastVars, purchaseVars, routerVars >>

\* the answers of get_chat_member about a user of a channel: the user is
\* a member, the user has left, or the call raises because the bot was
\* removed from the channel or cannot see it
ChatMemberOutcomes == {"member", "left", "bot was kicked", "chat not found"}
\* the outcomes in which the bot has no access to the channel
BotLacksAccess == {"bot was kicked", "chat not found"}

\* what check_channel_subscription makes of the answer: the status is one
\* of the accepted ones; every exception becomes False
IsMember(outcome) == outcome = "member"

\* the platform as create_invite_link meets it: the bot's own status in the
\* channel (or the exception of the call) and the result of
\* create_chat_invite_link
BotStatuses == {"administrator", "member", "bot was kicked", "chat not found"}
LinkResults == {"ok", "not enough rights", "error"}

\* create_invite_link: whether a link is returned, the platform calls made
\* and the alerts sent to ADMIN_ID
create_invite_link(plan_type, user_id, bot_status, link_result) ==
    IF subscription_plans[plan_type].channel_id = <<>>
    THEN [link |-> FALSE, calls |-> {}, alerts |-> {}]
    ELSE IF bot_status = "member"
    THEN [link |-> FALSE, calls |-> {"get_chat_member"},
          alerts |-> {[plan_type |-> plan_type, kind |-> "not administrator"]}]
    ELSE IF bot_status = "bot was kicked"
    THEN [link |-> FALSE, calls |-> {"get_chat_member"},
          alerts |-> {[plan_type |-> plan_type, kind |-> "removed"]}]
    ELSE IF bot_status # "administrator"
    THEN [link |-> FALSE, calls |-> {"get_chat_member"}, alerts |-> {}]
    ELSE IF link_result = "ok"
    THEN [link |-> TRUE,
          calls |-> {"get_chat_member", "create_chat_invite_link"},
          alerts |-> {}]
    ELSE [link |-> FALSE,
          calls |-> {"get_chat_member", "create_chat_invite_link"},
          alerts |-> IF link_result = "not enough rights"
                     THEN {[plan_type |-> plan_type, kind |-> "no rights"]}
                     ELSE {}]

\* callbacks subscribe_<plan> and refresh_link_<plan>
SubscribeMenu(user_id, plan_type, bot_status, link_result) ==
    LET made == create_invite_link(plan_type, user_id, bot_status, link_result)
        configured == subscription_plans[plan_type].channel_id # <<>>
    IN  /\ subscribe_reply' =
                [user_id |-> user_id, plan_type |-> plan_type,
                 outcome |-> IF ~configured THEN "not configured"
                             ELSE IF made.link THEN "invite link"
                             ELSE "no link"]
        /\ invite_links' =
                IF configured /\ made.link
                THEN invite_links \cup {<< user_id, plan_type >>}
                ELSE invite_links
        /\ admin_alerts' =
                IF configured THEN admin_alerts \cup made.alerts
                ELSE admin_alerts
        /\ UNCHANGED << clockVars, planVars, custom_time_reply, channels,
                        storeVars, accountVars, user_data, sends,
                        broadcastVars, routerVars >>

\* variant: the subscription is activated whatever the check says
ActivateUncheckedMutant(user_id, plan_type, outcome) ==
    /\ user_subscriptions' = [user_subscriptions EXCEPT ![user_id] =
            [plan |-> plan_type,
             expires_at |-> now + subscription_plans[plan_type].duration_days
                                    * 86400]]
    /\ UNCHANGED << clockVars, planVars, custom_time_reply, channels,
                    storeVars, user_stats, user_data, sends,
                    broadcastVars, purchaseVars, routerVars >>

\* callback confirm_subscribe_<plan>
ConfirmSubscription(user_id, plan_type, outcome) ==
    /\ IF check_channel_subscription(user_id, plan_type, IsMember(outcome))
       THEN user_subscriptions' = [user_subscriptions EXCEPT ![user_id] =
                [plan |-> plan_type,
                 expires_at |-> now + subscription_plans[plan_type].duration_days
                                        * 86400]]
       ELSE UNCHANGED user_subscriptions
    /\ UNCHANGED << clockVars, planVars, custom_time_reply, channels,
                    storeVars, user_stats, user_data, sends,
                    broadcastVars, purchaseVars, routerVars >>

\* variant: only a past time is too soon
TooSoonMutant(schedule_time, current_time) == schedule_time - current_time < 0

\* the free-text custom time is too close to the current time
TooSoon(schedule_time, current_time) ==
    schedule_time - current_time < MinLeadSeconds

\* message_handler while waiting_for_custom_time is set
CustomTimeMessage(user_id, m) ==
    LET ud == user_data[user_id]
        schedule_time == parse_custom_time(Strip(m.text))
        popped == [user_data EXCEPT ![user_id].waiting_for_custom_time = FALSE]
    IN  IF m.text = <<>>
        THEN \* message.text is None: .strip() raises before anything changes
             UNCHANGED << storeVars, user_stats, user_data, custom_time_reply >>
        ELSE IF ~schedule_time.ok
        THEN /\ user_data' = popped
             /\ custom_time_reply' = "bad_format"
             /\ UNCHANGED << storeVars, user_stats >>
        ELSE IF TooSoon(schedule_time.t, now)
        THEN /\ user_data' = popped
             /\ custom_time_reply' = "too_soon"
             /\ UNCHANGED << storeVars, user_stats >>
        ELSE IF ud.post_data # NoData /\ ud.selected_channel # <<>>
        THEN /\ CreatePost(user_id, ud.post_data, ud.selected_channel,
                           schedule_time.t)
             /\ custom_time_reply' = "scheduled"
        ELSE /\ user_data' = popped
             /\ custom_time_reply' = "no_data"
             /\ UNCHANGED << storeVars, user_stats >>

\* the checks of message_handler ahead of a channel registration
can_add_channel(user_id, member) ==
    LET plan == get_user_plan(user_id).plan
    IN  \/ is_admin(user_id)
        \/ /\ plan # "free"
           /\ ~is_subscription_expired(user_id)
           /\ check_channel_subscription(user_id, plan, member)
           /\ LET cfg == subscription_plans[plan]
              IN  ~(cfg.channels_limit # NoLimit
                      /\ Cardinality(channels) >= cfg.channels_limit)

\* message_handler on a text that starts with '@' or '-100'
AddChannelMessage(user_id, m, member) ==
    channels' = IF can_add_channel(user_id, member)
                THEN channels \cup {Strip(m.text)} ELSE channels

\* the post_data built from a message
PostDataOf(m) ==
    IF m.kind = "text"
    THEN [type |-> "text", text |-> m.text, file_id |-> "", caption |-> <<>>]
    ELSE [type |-> m.kind, text |-> m.caption, file_id |-> m.file_id,
          caption |-> m.caption]

\* variant: content is taken whether or not it is awaited
UnaskedContentMutant(user_id, m) ==
    /\ user_stats' = StatsAfterCanUserPost(user_id)
    /\ IF can_user_post(user_id) /\ m.kind # "other"
       THEN user_data' = [user_data EXCEPT
                 ![user_id].post_data = PostDataOf(m),
                 ![user_id].waiting_for_content = FALSE]
       ELSE UNCHANGED user_data

\* message_handler on anything else: the content of a post
ContentMessage(user_id, m) ==
    IF ~user_data[user_id].waiting_for_content
    THEN UNCHANGED << user_stats, user_data >>
    ELSE /\ user_stats' = StatsAfterCanUserPost(user_id)
         /\ IF can_user_post(user_id) /\ m.kind # "other"
            THEN user_data' = [user_data EXCEPT
                      ![user_id].post_data = PostDataOf(m),
                      ![user_id].waiting_for_content = FALSE]
            ELSE UNCHANGED user_data

\* callback edit_plan_<plan>
AdminEditPlanMenu(user_id, plan_type) ==
    /\ IF is_admin(user_id)
       THEN waiting_for_plan_settings' =
                [user_id |-> user_id, plan_type |-> plan_type]
       ELSE UNCHANGED waiting_for_plan_settings
    /\ UNCHANGED << clockVars, subscription_plans, custom_time_reply,
                    channels, storeVars, accountVars, user_data, sends,
                    broadcastVars, purchaseVars, routerVars >>

\* message_handler while the plan settings of this user are awaited and
\* the text has four fields or more
PlanSettingsMessage(m) ==
    LET parts == Split(Strip(m.text), "|")
        plan_type == waiting_for_plan_settings.plan_type
        posts_per_day == IntOf(parts[2])
        channels_limit == IntOf(parts[3])
        duration_days == IntOf(parts[4])
    IN  IF /\ FloatOk(parts[1])
           /\ posts_per_day.ok /\ channels_limit.ok /\ duration_days.ok
        THEN /\ subscription_plans' = [subscription_plans EXCEPT
                    ![plan_type].posts_per_day = posts_per_day.v,
                    ![plan_type].channels_limit = channels_limit.v,
                    ![plan_type].duration_days = duration_days.v]
             /\ waiting_for_plan_settings' = NoPlanSettings
        ELSE \* ValueError: the settings are still awaited
             UNCHANGED planVars

\* callback admin_broadcast
AdminBroadcastMenu(user_id) ==
    /\ IF is_admin(user_id)
       THEN waiting_for_broadcast' = TRUE
       ELSE UNCHANGED waiting_for_broadcast
    /\ UNCHANGED << clockVars, planVars, custom_time_reply, channels,
                    storeVars, accountVars, user_data, sends,
                    broadcast_calls, broadcast_reply, purchaseVars,
                    routerVars >>

\* the recipients of a broadcast: the users with an entry in
\* user_subscriptions and the users of the listed posts
all_users ==
    {u \in Users : user_subscriptions[u] # NoSubscription}
        \cup {heap[scheduled_posts[i]].user_id : i \in 1..Len(scheduled_posts)}

\* the message can be passed on by one of send_message, send_photo,
\* send_video and send_document
Sendable(m) == m.text # <<>> \/ m.kind # "other"

\* message_handler while a broadcast of the administrator is awaited: one
\* send call for each recipient, `failing' the recipients whose call
\* raises; a message of another kind is passed on to nobody and counted as
\* a success for everybody
BroadcastMessage(m, failing) ==
    /\ waiting_for_broadcast' = FALSE
    /\ broadcast_calls' =
          IF Sendable(m)
          THEN SetToBag({[chat_id |-> u, post_data |-> PostDataOf(m),
                          ok |-> u \notin failing] : u \in all_users})
          ELSE EmptyBag
    /\ broadcast_reply' =
          IF Sendable(m)
          THEN [success_count |-> Cardinality(all_users \ failing),
                error_count |-> Cardinality(failing)]
          ELSE [success_count |-> Cardinality(all_users), error_count |-> 0]

\* message_handler
MessageHandler(user_id, m, member) ==
    LET awaited == /\ waiting_for_plan_settings # NoPlanSettings
                   /\ waiting_for_plan_settings.user_id = user_id
    IN  IF awaited /\ m.text = <<>>
        THEN \* message.text is None: .strip() raises before anything changes
             UNCHANGED vars
        ELSE IF awaited /\ Len(Split(Strip(m.text), "|")) >= 4
        THEN /\ PlanSettingsMessage(m)
             /\ UNCHANGED << clockVars, custom_time_reply, channels, storeVars,
                             accountVars, user_data, sends, broadcastVars, purchaseVars, routerVars >>
        ELSE /\ waiting_for_plan_settings' =
                    IF awaited THEN NoPlanSettings ELSE waiting_for_plan_settings
             /\ IF waiting_for_broadcast /\ user_id = ADMIN_ID
                THEN /\ \E failing \in SUBSET all_users :
                            BroadcastMessage(m, IF Sendable(m) THEN failing ELSE {})
                     /\ UNCHANGED << storeVars, channels, user_stats, user_data,
                                     custom_time_reply >>
                ELSE /\ IF user_data[user_id].waiting_for_custom_time
                        THEN /\ CustomTimeMessage(user_id, m)
                             /\ UNCHANGED channels
                        ELSE IF IsChannelText(m.text)
                        THEN /\ AddChannelMessage(user_id, m, member)
                             /\ UNCHANGED << storeVars, user_stats, user_data,
                                             custom_time_reply >>
                        ELSE /\ ContentMessage(user_id, m)
                             /\ UNCHANGED << storeVars, channels,
                                             custom_time_reply >>
                     /\ UNCHANGED broadcastVars
             /\ UNCHANGED << clockVars, subscription_plans, user_subscriptions,
                             sends, purchaseVars, routerVars >>

---------------------------------------------------------------------------
(* The aiogram application of main.py: the tables of database.py and the   *)
(* handlers of the routers of admin.py and subscription.py.  The           *)
(* dispatcher offers a message to the handlers of the admin router in the  *)
(* order of their registration, then to those of the subscription router;  *)
(* the first handler whose filters pass handles it.  A handler without a   *)
(* state filter passes in every state.                                     *)

\* number of rows of table tariffs
MaxTariffs == 1

Digit1 == << "1" >>
Plus1 == << "+", "1" >>
LinkA == << "t", ".", "m", "e", "/", "a" >>
CmdStart == << "/", "s", "t", "a", "r", "t" >>
CmdAdmin == << "/", "a", "d", "m", "i", "n" >>
\* the texts that the users of the router send
RouterTexts == {Digit1, Plus1, ChanB, LinkA, CmdStart}
\* the texts that a user who is no administrator sends
UserTexts == {Digit1, CmdStart, CmdAdmin}

\* the fields of edit_tariff_keyboard, behind "edit_tariff_", that the
\* administrator edits
EditFields == {"name", "limit"}

\* the ids of the rows of table tariffs (AUTOINCREMENT, no row is deleted)
TariffIds == 1..Len(db_tariffs)

\* get_tariffs: the active rows
get_tariffs == {i \in TariffIds : db_tariffs[i].is_active = 1}

\* get_tariff_by_id: the id of the row, 0 for None
get_tariff_by_id(tariff_id) == IF tariff_id \in TariffIds THEN tariff_id ELSE 0

\* get_tariff_by_channel_id: the id of the first row with this channel id,
\* 0 for None
get_tariff_by_channel_id(channel_id) ==
    LET found == {i \in TariffIds : db_tariffs[i].channel_id = channel_id}
    IN  IF found = {} THEN 0
        ELSE CHOOSE i \in found : \A j \in found : i <= j

\* add_tariff: the table after the INSERT
add_tariff(name, channel_link, channel_id, message_limit, duration_days) ==
    Append(db_tariffs, [name |-> name, channel_link |-> channel_link,
                        channel_id |-> channel_id,
                        message_limit |-> message_limit,
                        duration_days |-> duration_days, is_active |-> 1])

\* update_tariff: the table after the UPDATE, if the field names a column
update_tariff(tariff_id, field, value) ==
    IF tariff_id \notin TariffIds THEN db_tariffs
    ELSE IF field = "name"
    THEN [db_tariffs EXCEPT ![tariff_id].name = value]
    ELSE IF field = "channel_link"
    THEN [db_tariffs EXCEPT ![tariff_id].channel_link = value]
    ELSE IF field = "channel_id"
    THEN [db_tariffs EXCEPT ![tariff_id].channel_id = value]
    ELSE IF field = "message_limit"
    THEN [db_tariffs EXCEPT ![tariff_id].message_limit = value]
    ELSE IF field = "duration_days"
    THEN [db_tariffs EXCEPT ![tariff_id].duration_days = value]
    ELSE db_tariffs

\* variant: the row stays active
KeepTariffMutant(tariff_id) == db_tariffs

\* delete_tariff: the table after the UPDATE
delete_tariff(tariff_id) ==
    IF tariff_id \in TariffIds
    THEN [db_tariffs EXCEPT ![tariff_id].is_active = 0]
    ELSE db_tariffs

\* add_user: the table after the INSERT, if the user has no row
add_user(user_id) ==
    IF db_users[user_id].present THEN db_users
    ELSE [db_users EXCEPT ![user_id] = [NoUserRow EXCEPT !.present = TRUE]]

\* update_user_tariff: the table after the UPDATE; a user without a row
\* and a tariff without a row change nothing
update_user_tariff(user_id, tariff_id) ==
    IF tariff_id \in TariffIds /\ db_users[user_id].present
    THEN [db_users EXCEPT ![user_id] =
            [present |-> TRUE, tariff_id |-> tariff_id,
             messages_left |-> db_tariffs[tariff_id].message_limit,
             subscription_end |-> now \div 86400
                                    + db_tariffs[tariff_id].duration_days]]
    ELSE db_users

\* variant: the UPDATE has no condition on messages_left
UncheckedDecrementMutant(user_id) ==
    IF db_users[user_id].present
    THEN [db_users EXCEPT ![user_id].messages_left = @ - 1]
    ELSE db_users

\* decrement_user_messages: the table after the UPDATE of the rows of this
\* user with messages_left > 0
decrement_user_messages(user_id) ==
    IF db_users[user_id].present /\ db_users[user_id].messages_left > 0
    THEN [db_users EXCEPT ![user_id].messages_left = @ - 1]
    ELSE db_users

\* check_subscription_expiry: the table after the UPDATE of the rows whose
\* subscription_end is before today; a NULL subscription_end (-1) compares
\* to NULL and the row is left
check_subscription_expiry ==
    [u \in RouterUsers |->
        IF /\ db_users[u].present
           /\ db_users[u].subscription_end # -1
           /\ db_users[u].subscription_end < DateOf(now)
        THEN [present |-> TRUE, tariff_id |-> 0, messages_left |-> 0,
              subscription_end |-> -1]
        ELSE db_users[u]]

\* add_monitored_channel: INSERT OR REPLACE on the key channel_id
add_monitored_channel(channel_id, tariff_id) ==
    Append(SelectSeq(db_monitored_channels,
                     LAMBDA r : r.channel_id # channel_id),
           [channel_id |-> channel_id, tariff_id |-> tariff_id])

\* get_all_monitored_channels: the rows joined with their tariff
get_all_monitored_channels ==
    SelectSeq(db_monitored_channels, LAMBDA r : r.tariff_id \in TariffIds)

\* str.startswith(('http://', 'https://', 't.me/'))
IsLink(t) ==
    \/ StartsWith(t, << "h", "t", "t", "p", ":", "/", "/" >>)
    \/ StartsWith(t, << "h", "t", "t", "p", "s", ":", "/", "/" >>)
    \/ StartsWith(t, << "t", ".", "m", "e", "/" >>)

\* the filter Command(c) on a text
IsCommand(t, c) == t # <<>> /\ Split(t, " ")[1] = << "/" >> \o c

\* state.set_state(st) after state.update_data(data)
SetState(user_id, st, data) ==
    fsm' = [fsm EXCEPT ![user_id] = [state |-> st, data |-> data]]

\* callback add_tariff
AddTariffStart(user_id) ==
    /\ SetState(user_id, "TariffStates:waiting_for_tariff_name",
                fsm[user_id].data)
    /\ UNCHANGED << db_tariffs, db_users, db_monitored_channels, botVars >>

\* callback edit_tariff_<field>
EditTariffField(user_id, field) ==
    /\ IF field \in {"name", "link", "limit", "duration"}
       THEN SetState(user_id, "TariffStates:waiting_for_edit_tariff_id",
                     [fsm[user_id].data EXCEPT !.edit_field = field])
       ELSE UNCHANGED fsm
    /\ UNCHANGED << db_tariffs, db_users, db_monitored_channels, botVars >>

\* callback monitor_channels
MonitorChannels(user_id) ==
    /\ SetState(user_id, "ChannelStates:waiting_for_channel_id",
                fsm[user_id].data)
    /\ UNCHANGED << db_tariffs, db_users, db_monitored_channels, botVars >>

\* callback check_subscription of the subscription router; `member' tells
\* whether the user is a member of the monitored channel, which the
\* handler does not ask the platform
CheckSubscriptionCallback(user_id, member) ==
    LET channels_ == get_all_monitored_channels
        tariff == IF channels_ = <<>> THEN 0
                  ELSE get_tariff_by_channel_id(channels_[1].channel_id)
    IN  /\ db_users' = IF tariff # 0 THEN update_user_tariff(user_id, tariff)
                       ELSE db_users
        /\ UNCHANGED << db_tariffs, db_monitored_channels, fsm, botVars >>

\* the functions of database.py on table users, called one at a time
AddUser(user_id) ==
    /\ db_users' = add_user(user_id)
    /\ UNCHANGED << db_tariffs, db_monitored_channels, fsm, botVars >>

UpdateUserTariff(user_id, tariff_id) ==
    /\ db_users' = update_user_tariff(user_id, tariff_id)
    /\ UNCHANGED << db_tariffs, db_monitored_channels, fsm, botVars >>

DecrementUserMessages(user_id) ==
    /\ db_users' = decrement_user_messages(user_id)
    /\ UNCHANGED << db_tariffs, db_monitored_channels, fsm, botVars >>

\* one round of the background task check_expired_subscriptions
CheckExpiredSubscriptions ==
    /\ db_users' = check_subscription_expiry
    /\ UNCHANGED << db_tariffs, db_monitored_channels, fsm, botVars >>

\* the message handlers of the two routers, in the order of registration
RouterMessage(user_id, text) ==
    LET st == fsm[user_id].state
        data == fsm[user_id].data
        n == IntOf(text)
    IN  /\ IF IsCommand(text, << "a", "d", "m", "i", "n" >>)
           THEN \* admin_command: an answer only
                UNCHANGED routerVars
           ELSE IF st = "TariffStates:waiting_for_tariff_name"
           THEN \* process_tariff_name
                /\ SetState(user_id, "TariffStates:waiting_for_channel_link",
                            [data EXCEPT !.name = text])
                /\ UNCHANGED << db_tariffs, db_users, db_monitored_channels >>
           ELSE IF st = "TariffStates:waiting_for_channel_link"
           THEN \* process_channel_link
                /\ IF IsLink(text)
                   THEN SetState(user_id, "TariffStates:waiting_for_channel_id",
                                 [data EXCEPT !.channel_link = text])
                   ELSE UNCHANGED fsm
                /\ UNCHANGED << db_tariffs, db_users, db_monitored_channels >>
           ELSE IF st = "TariffStates:waiting_for_channel_id"
           THEN \* process_channel_id
                /\ IF StartsWith(Strip(text), << "-", "1", "0", "0" >>)
                   THEN SetState(user_id,
                                 "TariffStates:waiting_for_message_limit",
                                 [data EXCEPT !.channel_id = Strip(text)])
                   ELSE UNCHANGED fsm
                /\ UNCHANGED << db_tariffs, db_users, db_monitored_channels >>
           ELSE IF st = "TariffStates:waiting_for_message_limit"
           THEN \* process_tariff_limit
                /\ IF n.ok /\ n.v > 0
                   THEN SetState(user_id,
                                 "TariffStates:waiting_for_tariff_duration",
                                 [data EXCEPT !.limit = n.v])
                   ELSE UNCHANGED fsm
                /\ UNCHANGED << db_tariffs, db_users, db_monitored_channels >>
           ELSE IF st = "TariffStates:waiting_for_tariff_duration"
           THEN \* process_tariff_duration
                /\ IF n.ok /\ n.v > 0
                   THEN /\ Len(db_tariffs) < MaxTariffs
                        /\ db_tariffs' = add_tariff(data.name, data.channel_link,
                                                    data.channel_id, data.limit,
                                                    n.v)
                        /\ fsm' = [fsm EXCEPT ![user_id] = NoFsm]
                   ELSE UNCHANGED << db_tariffs, fsm >>
                /\ UNCHANGED << db_users, db_monitored_channels >>
           ELSE IF st = "TariffStates:waiting_for_edit_tariff_id"
           THEN \* process_edit_tariff_id
                /\ IF n.ok
                   THEN SetState(user_id,
                                 "TariffStates:waiting_for_edit_tariff_value",
                                 [data EXCEPT !.tariff_id = n.v])
                   ELSE UNCHANGED fsm
                /\ UNCHANGED << db_tariffs, db_users, db_monitored_channels >>
           ELSE IF st = "TariffStates:waiting_for_edit_tariff_value"
           THEN \* process_edit_tariff_value
                /\ IF \/ data.edit_field \in {"limit", "duration"}
                         /\ ~(n.ok /\ n.v > 0)
                      \/ data.edit_field = "link" /\ ~IsLink(text)
                   THEN UNCHANGED << db_tariffs, fsm >>
                   ELSE /\ db_tariffs' =
                             update_tariff(data.tariff_id, data.edit_field,
                                           IF data.edit_field
                                                \in {"limit", "duration"}
                                           THEN n.v ELSE text)
                        /\ fsm' = [fsm EXCEPT ![user_id] = NoFsm]
                /\ UNCHANGED << db_users, db_monitored_channels >>
           ELSE IF text # <<>> /\ AllDigits(text)
           THEN \* delete_tariff_process
                /\ db_tariffs' = delete_tariff(ToInt(text))
                /\ UNCHANGED << db_users, db_monitored_channels, fsm >>
           ELSE IF st = "ChannelStates:waiting_for_channel_id"
           THEN \* process_channel_for_monitoring
                /\ IF ~StartsWith(Strip(text), << "-", "1", "0", "0" >>)
                   THEN UNCHANGED fsm
                   ELSE IF get_tariffs = {}
                   THEN fsm' = [fsm EXCEPT ![user_id] = NoFsm]
                   ELSE SetState(user_id,
                                 "ChannelStates:waiting_for_tariff_for_channel",
                                 [data EXCEPT !.channel_id = Strip(text)])
                /\ UNCHANGED << db_tariffs, db_users, db_monitored_channels >>
           ELSE IF st = "ChannelStates:waiting_for_tariff_for_channel"
           THEN \* process_tariff_for_channel
                /\ IF ~n.ok
                   THEN UNCHANGED << db_monitored_channels, fsm >>
                   ELSE IF get_tariff_by_id(n.v) = 0
                   THEN /\ fsm' = [fsm EXCEPT ![user_id] = NoFsm]
                        /\ UNCHANGED db_monitored_channels
                   ELSE /\ db_monitored_channels' =
                                add_monitored_channel(data.channel_id, n.v)
                        /\ fsm' = [fsm EXCEPT ![user_id] = NoFsm]
                /\ UNCHANGED << db_tariffs, db_users >>
           ELSE IF IsCommand(text, << "s", "t", "a", "r", "t" >>)
           THEN \* start_command
                /\ db_users' = add_user(user_id)
                /\ UNCHANGED << db_tariffs, db_monitored_channels, fsm >>
           ELSE \* show_tariffs, my_subscription or no handler
                UNCHANGED routerVars
        /\ UNCHANGED botVars

---------------------------------------------------------------------------
(* Specifications *)

\* the scheduler: posts composed with the time menu, cancelled and delivered
Next ==
    \/ \E d \in HourSteps : Tick(d)
    \/ \E u \in Users : Start(u)
    \/ \E u \in Users, c \in ChannelIds : SelectChannel(u, c)
    \/ \E u \in Users, t \in TimeMenu : SchedulePost(u, t)
    \/ \E u \in Users, m \in ContentMessages : MessageHandler(u, m, FALSE)
    \/ \E u \in Users, id \in KnownIds : CancelScheduledPost(u, id)
    \/ \E h \in Handles : StartDelivery(h)
    \/ \E h \in Handles : WakeDelivery(h)
    \/ \E h \in Handles, ok \in BOOLEAN : SendReturns(h, ok)

Spec == Init /\ [][Next]_vars

\* the scheduler under fair scheduling: the event loop runs every delivery
\* task that can run, and every send call returns or raises
DeliveryFairness ==
    \A h \in Handles :
        /\ WF_vars(StartDelivery(h))
        /\ WF_vars(WakeDelivery(h))
        /\ WF_vars(\E ok \in BOOLEAN : SendReturns(h, ok))

SpecFair == Spec /\ DeliveryFairness

\* the composer with a custom time: what the free text does to the store
\* and the counters; the delivery tasks it starts are left pending
NextCustomTime ==
    \/ \E d \in HalfMinuteSteps : Tick(d)
    \/ \E u \in Users : Start(u)
    \/ \E u \in Users, c \in {ChanA} : SelectChannel(u, c)
    \/ \E u \in Users : RequestCustomTime(u)
    \/ \E u \in Users, p \in {"basic", "free"} :
            AdminSetSubscription(u, User1, p)
    \/ \E u \in Users, m \in ComposerMessages : MessageHandler(u, m, FALSE)

SpecCustomTime == Init /\ [][NextCustomTime]_vars

\* the composer with publish-now, subscriptions and channel registration
NextPublish ==
    \/ \E d \in HourSteps : Tick(d)
    \/ \E u \in Users : Start(u)
    \/ \E u \in Users, c \in ChannelIds : SelectChannel(u, c)
    \/ \E u \in Users, ok \in BOOLEAN : PublishNow(u, ok)
    \/ \E u \in Users, p \in PlanKeys \cup {"free"} :
            AdminSetSubscription(u, User1, p)
    \/ \E u \in Users, m \in ContentMessages \cup ChannelMessages,
          member \in BOOLEAN :
            MessageHandler(u, m, member)

SpecPublish == Init /\ [][NextPublish]_vars

\* the post store over a wall clock that can be set back: posts are
\* composed with the time menu and cancelled; delivery tasks are left
\* pending
NextIds ==
    \/ ClockSetBack
    \/ \E u \in Users : Start(u)
    \/ \E u \in Users, c \in ChannelIds : SelectChannel(u, c)
    \/ \E u \in Users, t \in TimeMenu : SchedulePost(u, t)
    \/ \E u \in Users, m \in ContentMessages : MessageHandler(u, m, FALSE)
    \/ \E u \in Users, id \in KnownIds : CancelScheduledPost(u, id)

SpecIds == Init /\ [][NextIds]_vars

\* admission: subscriptions granted to any user and running out, channel
\* registration and the content step of the composer
NextAdmission ==
    \/ \E d \in MonthSteps : Tick(d)
    \/ \E u \in Users : Start(u)
    \/ \E u \in Users, c \in {ChanA} : SelectChannel(u, c)
    \/ \E u, target \in Users, p \in PlanKeys \cup {"free"} :
            AdminSetSubscription(u, target, p)
    \/ \E u \in Users, member \in BOOLEAN : CheckSubscription(u, member)
    \/ \E u \in Users, m \in {TextMessage(TextHi)} \cup ChannelMessages,
          member \in BOOLEAN :
            MessageHandler(u, m, member)

SpecAdmission == Init /\ [][NextAdmission]_vars

\* in the specification of the channel table each user sends the id of a
\* channel of their own
OwnChannel(user_id) == IF is_admin(user_id) THEN ChanA ELSE ChanB

\* the channel table: a plan gets its private channel, a user a
\* subscription, and channels are registered, selected and deleted
NextChannels ==
    \/ \E d \in MonthSteps : Tick(d)
    \/ \E u \in Users : Start(u)
    \/ \E u \in Users : SetupChannel(u, "basic", PrivChan)
    \/ \E u \in Users, p \in {"basic", "free"} :
            AdminSetSubscription(u, User1, p)
    \/ \E u \in Users, member \in BOOLEAN : CheckSubscription(u, member)
    \/ \E u \in Users, member \in BOOLEAN :
            MessageHandler(u, TextMessage(OwnChannel(u)), member)
    \/ \E u \in Users, c \in ChannelIds : SelectChannel(u, c)
    \/ \E u \in Users, c \in ChannelIds : DeleteChannel(u, c)

SpecChannels == Init /\ [][NextChannels]_vars

\* messages of the specification of the daily quota: the content of a
\* post, a channel to register, and plan settings
QuotaMessages == {TextMessage(t) : t \in {TextHi, ChanA} \cup PlanTexts}

\* the daily quota: subscriptions, the plan settings of 'premium', posts
\* published at once, over two calendar days
NextQuota ==
    \/ \E d \in DaySteps : Tick(d)
    \/ \E u \in Users : Start(u)
    \/ \E u \in Users : AdminEditPlanMenu(u, "premium")
    \/ \E u \in Users, p \in {"basic", "premium"} :
            AdminSetSubscription(u, User1, p)
    \/ \E u \in Users : SelectChannel(u, ChanA)
    \/ \E u \in Users, ok \in BOOLEAN : PublishNow(u, ok)
    \/ \E u \in Users, m \in QuotaMessages : MessageHandler(u, m, FALSE)

SpecQuota == Init /\ [][NextQuota]_vars

\* messages of the specification of the composer: a text, which is a
\* custom time where one is awaited and the content of a post otherwise,
\* and a message a post cannot carry
DialogueMessages == {TextMessage(Time0001), StickerMessage}

\* the composer with its three time choices, in any order of the inputs,
\* at one reading of the clock; delivery tasks are left pending
NextComposer ==
    \/ \E u \in Users : Start(u)
    \/ \E u \in Users : AdminSetSubscription(u, User1, "standard")
    \/ \E u \in Users : SelectChannel(u, ChanA)
    \/ \E u \in Users : RequestCustomTime(u)
    \/ \E u \in Users, t \in TimeMenu : SchedulePost(u, t)
    \/ \E u \in Users, ok \in BOOLEAN : PublishNow(u, ok)
    \/ \E u \in Users, m \in DialogueMessages : MessageHandler(u, m, FALSE)

SpecComposer == Init /\ [][NextComposer]_vars

\* the broadcast: the recipients are the subscribers and the users of the
\* listed posts; delivery tasks are left pending
NextBroadcast ==
    \/ \E u \in Users : Start(u)
    \/ \E u \in Users : AdminBroadcastMenu(u)
    \/ \E u \in Users, p \in {"basic", "free"} :
            AdminSetSubscription(u, User1, p)
    \/ \E u \in Users : SelectChannel(u, ChanA)
    \/ \E u \in Users, t \in TimeMenu : SchedulePost(u, t)
    \/ \E u \in Users, m \in {TextMessage(TextHi), StickerMessage} :
            MessageHandler(u, m, FALSE)

SpecBroadcast == Init /\ [][NextBroadcast]_vars

\* messages of the specification of the two dialogues of the
\* administrator: a text, plan settings, and a message without text
TwoDialogueMessages ==
    {TextMessage(TextHi), TextMessage(PlanTextOnePost), StickerMessage}

\* the broadcast next to the plan settings: the administrator opens the
\* plan settings of 'premium' and the broadcast menu in any order, both
\* users send messages
NextBroadcastPlan ==
    \/ \E u \in Users : AdminEditPlanMenu(u, "premium")
    \/ \E u \in Users : AdminBroadcastMenu(u)
    \/ \E u \in Users, p \in {"basic", "free"} :
            AdminSetSubscription(u, User1, p)
    \/ \E u \in Users : SelectChannel(u, ChanA)
    \/ \E u \in Users, m \in TwoDialogueMessages :
            MessageHandler(u, m, FALSE)

SpecBroadcastPlan == Init /\ [][NextBroadcastPlan]_vars

\* messages of the specification of the day change: the text of a post and
\* the plan settings of one post a day
MidnightMessages == {TextMessage(TextHi), TextMessage(PlanTextOnePost)}

\* the day change: the administrator sets 'premium' to one post a day
\* before the first post is made and grants the plan; posts are composed
\* with the time menu on two calendar days
NextMidnight ==
    \/ \E d \in DaySteps : Tick(d)
    \/ \E u \in Users : created = 0 /\ AdminEditPlanMenu(u, "premium")
    \/ \E u \in Users : AdminSetSubscription(u, User1, "premium")
    \/ \E u \in Users : SelectChannel(u, ChanA)
    \/ \E u \in Users, t \in TimeMenu : SchedulePost(u, t)
    \/ \E u \in Users, m \in MidnightMessages :
            /\ waiting_for_plan_settings # NoPlanSettings => created = 0
            /\ MessageHandler(u, m, FALSE)

SpecMidnight == Init /\ [][NextMidnight]_vars

\* the daily quota and the cancel button: 'premium' is one post a day, its
\* subscriber composes posts with the time menu and cancels them
NextCancelQuota ==
    \/ \E d \in DaySteps : Tick(d)
    \/ \E u \in Users : created = 0 /\ AdminEditPlanMenu(u, "premium")
    \/ \E u \in Users : AdminSetSubscription(u, User1, "premium")
    \/ \E u \in Users : SelectChannel(u, ChanA)
    \/ \E u \in Users, t \in TimeMenu : SchedulePost(u, t)
    \/ \E u \in Users, m \in MidnightMessages :
            /\ waiting_for_plan_settings # NoPlanSettings => created = 0
            /\ MessageHandler(u, m, FALSE)
    \/ \E u \in Users, id \in KnownIds : CancelScheduledPost(u, id)

SpecCancelQuota == Init /\ [][NextCancelQuota]_vars

\* messages of the specification of the channel texts: two channel ids, a
\* text of a post, and a text that starts like a channel name and has the
\* four fields of plan settings
ChannelTextMessages ==
    {TextMessage(t) : t \in ChannelIds \cup {TextHi, PlanTextAt}}

\* the channel texts: a text is sent in every state of the dialogues of
\* message_handler (plan settings, broadcast, custom time, content)
NextChannelText ==
    \/ \E u \in Users : Start(u)
    \/ \E u \in Users : AdminSetSubscription(u, User1, "standard")
    \/ \E u \in Users : AdminEditPlanMenu(u, "premium")
    \/ \E u \in Users : AdminBroadcastMenu(u)
    \/ \E u \in Users : SelectChannel(u, ChanA)
    \/ \E u \in Users : RequestCustomTime(u)
    \/ \E u \in Users, m \in ChannelTextMessages, member \in BOOLEAN :
            MessageHandler(u, m, member)

SpecChannelText == Init /\ [][NextChannelText]_vars

\* the purchase of a plan: the private channel of 'basic' is set up, users
\* open the subscribe menu, ask for the check of their membership and for
\* /check, the administrator grants and removes subscriptions
NextPurchase ==
    \/ \E u \in Users : SetupChannel(u, "basic", PrivChan)
    \/ \E u \in Users, p \in {"basic", "standard"}, b \in BotStatuses,
          l \in LinkResults : SubscribeMenu(u, p, b, l)
    \/ \E u \in Users, p \in {"basic", "standard"}, o \in ChatMemberOutcomes :
            ConfirmSubscription(u, p, o)
    \/ \E u \in Users, o \in ChatMemberOutcomes :
            CheckSubscription(u, IsMember(o))
    \/ \E u \in Users, p \in {"standard", "free"} :
            AdminSetSubscription(u, User1, p)

SpecPurchase == Init /\ [][NextPurchase]_vars

\* the aiogram application: the tariff table, the monitored channels and
\* the users' tariffs.  The administrator opens a dialogue when none is
\* open and answers it; the other user sends /start, /admin and a number
\* and asks for the subscription check.
NextRouter ==
    \/ \E u \in RouterUsers \cap admin_ids :
            fsm[u].state = "none" /\ AddTariffStart(u)
    \/ \E u \in RouterUsers \cap admin_ids, f \in EditFields :
            fsm[u].state = "none" /\ EditTariffField(u, f)
    \/ \E u \in RouterUsers \cap admin_ids :
            fsm[u].state = "none" /\ MonitorChannels(u)
    \/ \E u \in RouterUsers, member \in BOOLEAN :
            CheckSubscriptionCallback(u, member)
    \/ \E u \in RouterUsers \cap admin_ids, t \in RouterTexts :
            RouterMessage(u, t)
    \/ \E u \in RouterUsers \ admin_ids, t \in UserTexts : RouterMessage(u, t)

SpecRouter == Init /\ [][NextRouter]_vars

\* the texts of the specification of the tariff edits: numbers, a link and
\* a channel id
Digit0 == << "0" >>
Digit2 == << "2" >>
EditTexts == {Digit0, Digit1, Digit2, LinkA, ChanB}

\* the fields of edit_tariff_keyboard, behind "edit_tariff_"
AllEditFields == {"name", "link", "limit", "duration"}

\* the states of the add-tariff dialogue
AddTariffStates ==
    {"TariffStates:waiting_for_tariff_name",
     "TariffStates:waiting_for_channel_link",
     "TariffStates:waiting_for_channel_id",
     "TariffStates:waiting_for_message_limit",
     "TariffStates:waiting_for_tariff_duration"}

\* the tariff edits: the administrator creates one tariff, answering the
\* add-tariff dialogue with '1', a link and a channel id, then opens the
\* edit dialogue of any field and answers it with any of the texts
NextEdit ==
    \/ \E u \in RouterUsers \cap admin_ids :
            fsm[u].state = "none" /\ db_tariffs = <<>> /\ AddTariffStart(u)
    \/ \E u \in RouterUsers \cap admin_ids, f \in AllEditFields :
            fsm[u].state = "none" /\ EditTariffField(u, f)
    \/ \E u \in RouterUsers \cap admin_ids, t \in EditTexts :
            /\ fsm[u].state \in AddTariffStates => t \in {Digit1, LinkA, ChanB}
            /\ RouterMessage(u, t)

SpecEdit == Init /\ [][NextEdit]_vars

\* table users: the administrator creates a tariff of two messages, and
\* the functions of database.py on table users are called in any order,
\* for a tariff id with and without a row, before and after the end of
\* the subscription
NextUsers ==
    \/ \E d \in MonthSteps : Tick(d)
    \/ \E u \in RouterUsers \cap admin_ids :
            fsm[u].state = "none" /\ db_tariffs = <<>> /\ AddTariffStart(u)
    \/ \E u \in RouterUsers \cap admin_ids, t \in {Digit2, LinkA, ChanB} :
            fsm[u].state \in AddTariffStates /\ RouterMessage(u, t)
    \/ \E u \in RouterUsers : AddUser(u)
    \/ \E u \in RouterUsers, tariff_id \in 0..MaxTariffs :
            UpdateUserTariff(u, tariff_id)
    \/ \E u \in RouterUsers : DecrementUserMessages(u)
    \/ CheckExpiredSubscriptions

SpecUsers == Init /\ [][NextUsers]_vars

---------------------------------------------------------------------------
(* Properties of the scheduler (specification Spec) *)

\* the list scheduled_posts holds a record with this id
Listed(post_id) ==
    \E i \in 1..Len(scheduled_posts) : heap[scheduled_posts[i]].id = post_id

\* C1: a post taken out of the list by cancel_post_<id> while its delivery
\* task has not yet woken (it has not started, or it sleeps) is never sent:
\* the task makes no call on the send interface, then or later.
C1_CancelledBeforeWakeNotSent ==
    [][\A h \in Handles :
          (timers[h].pc \in {"start", "sleeping"} /\ ~Listed(timers[h].post_id))
              => /\ timers'[h].pc \in {"start", "sleeping", "done"}
                 /\ NumCallsBy(h)' = 0]_vars

\* a delivery task woke at or after the fire time of a cancelled post and
\* ended without a call
C1_Witness ==
    \E h \in Handles :
        /\ timers[h].pc = "done"
        /\ heap[h].status = "scheduled"
        /\ ~Listed(heap[h].id)
        /\ now >= timers[h].schedule_time
        /\ NumCallsBy(h) = 0

\* C2: a delivery task that wakes while its post is still in the list makes
\* one call on the send interface, with the post's own channel_id and the
\* method and payload of the post's own post_data; it makes no second call;
\* and when the call returns, the post's status is 'sent'.
C2_OneSendOfOwnContent ==
    [][\A h \in Handles :
          /\ (/\ timers[h].pc \in {"start", "sleeping"}
              /\ timers'[h].pc \notin {"start", "sleeping"}
              /\ Listed(timers[h].post_id))
                 => /\ timers'[h].pc = "sending"
                    /\ sends' = sends (+) SetToBag({SendCall(h, heap[h].channel_id,
                                                    heap[h].post_data, now)})
                    /\ NumCallsBy(h)' = 1
          /\ NumCallsBy(h) = 1 => /\ CallsBy(h)' = CallsBy(h)
                                  /\ NumCallsBy(h)' = 1
          /\ NumCallsBy(h)' <= 1
          /\ SendReturns(h, TRUE) => /\ heap'[h].status = "sent"
                                     /\ timers'[h].pc = "done"]_vars

\* two posts for different channels with different content, both delivered
\* once, the first one marked 'sent'
C2_Witness ==
    /\ created = 2
    /\ heap[1].channel_id # heap[2].channel_id
    /\ heap[1].post_data # heap[2].post_data
    /\ \A h \in {1, 2} : timers[h].pc = "done" /\ NumCallsBy(h) = 1
    /\ heap[1].status = "sent"
    /\ heap[2].status = "sent"

\* C3: a status 'sent', 'cancelled' or 'error' never changes again; a status
\* changes only from 'scheduled', and only to 'sent', 'cancelled' or 'error'
\* (the record is created with 'scheduled').
C3_TerminalStatusIsFinal ==
    [][\A h \in Handles :
          /\ heap[h].status \in {"sent", "cancelled", "error"}
                => heap'[h].status = heap[h].status
          /\ heap'[h].status # heap[h].status
                => \/ heap[h].status = "none" /\ heap'[h].status = "scheduled"
                   \/ /\ heap[h].status = "scheduled"
                      /\ heap'[h].status \in {"sent", "cancelled", "error"}]_vars

\* a sent post and a failed post, both taken off the list by a cancel: both
\* still carry their status
C3_Witness ==
    /\ heap[1].status = "sent"
    /\ heap[2].status = "error"
    /\ ~Listed(heap[1].id)
    /\ ~Listed(heap[2].id)

C5_OnlyOwnerCancels ==
    [][\A h \in Handles : \A u \in Users :
          (/\ heap[h].status # "none"
           /\ u # heap[h].user_id
           /\ CancelScheduledPost(u, heap[h].id))
              => scheduled_posts' = scheduled_posts]_vars

\* C6 as stated: cancel_post_<id> on a post that is already 'sent', or
\* already cancelled, changes neither the store nor the post.
C6_CancelIsIdempotent ==
    [][\A h \in Handles :
          (/\ heap[h].status # "none"
           /\ heap[h].status = "sent" \/ ~Listed(heap[h].id)
           /\ \E u \in Users : CancelScheduledPost(u, heap[h].id))
              => /\ scheduled_posts' = scheduled_posts
                 /\ heap' = heap]_vars

\* C7: every call a delivery task makes on the send interface is made at a
\* time t >= the post's schedule_time; a task that starts when the
\* schedule_time has passed does not sleep: it goes on to the lookup, and
\* to the call, in the same step.
C7_NotBeforeFireTime ==
    [][\A h \in Handles :
          /\ \A c \in CallsBy(h)' : c.at >= timers'[h].schedule_time
          /\ (/\ timers[h].pc = "start"
              /\ timers[h].schedule_time <= now
              /\ timers'[h].pc # "start")
                 => /\ timers'[h].pc \in {"sending", "done"}
                    /\ \A c \in CallsBy(h)' : c.at = now]_vars

\* one post was sent after its task slept until the fire time, another one
\* by a task that started after the fire time and did not sleep
C7_Witness ==
    \E h, g \in Handles :
        /\ NumCallsBy(h) = 1
        /\ timers[h].wake_at = timers[h].schedule_time
        /\ NumCallsBy(g) = 1
        /\ timers[g].wake_at = 0
        /\ \A c \in CallsBy(g) : c.at >= timers[g].schedule_time

\* C8: when the send call of a delivery task raises, the post's status
\* becomes 'error' and the task ends normally; a task that has ended does
\* nothing more, and no task makes more than one call.
C8_FailureIsRecordedNotRetried ==
    [][\A h \in Handles :
          /\ SendReturns(h, FALSE) => /\ heap'[h].status = "error"
                                      /\ timers'[h].pc = "done"
          /\ timers[h].pc = "done" => /\ timers'[h] = timers[h]
                                      /\ CallsBy(h)' = CallsBy(h)
          /\ NumCallsBy(h)' <= 1
          /\ timers'[h].pc # "failed"]_vars

\* a delivery task whose call raised has ended, after one call, with the
\* post marked 'error'
C8_Witness ==
    \E h \in Handles :
        /\ heap[h].status = "error"
        /\ timers[h].pc = "done"
        /\ NumCallsBy(h) = 1

\* C32: cancel_post_<id> pressed while the delivery task of the post is in
\* its send call takes the post out of the list and leaves the task and the
\* calls made as they are; the task then ends with its one call made; and
\* a task that reads the list after the cancel ends without a call.
C32_CancelIsAdvisoryInFlight ==
    [][\A h \in Handles :
          /\ (/\ timers[h].pc = "sending"
              /\ \E u \in Users : CancelScheduledPost(u, timers[h].post_id))
                 => /\ ~Listed(timers[h].post_id)'
                    /\ timers'[h] = timers[h]
                    /\ sends' = sends
          /\ (timers[h].pc = "sending" /\ ~Listed(timers[h].post_id))
                 => /\ timers'[h].pc \in {"sending", "done"}
                    /\ timers'[h].post = timers[h].post
                    /\ NumCallsBy(h)' = 1
          /\ (/\ timers[h].pc \in {"start", "sleeping"}
              /\ ~Listed(timers[h].post_id)
              /\ timers'[h].pc \notin {"start", "sleeping"})
                 => /\ timers'[h].pc = "done"
                    /\ CallsBy(h)' = {}]_vars

\* a post was cancelled during its send call, and the call has returned:
\* the post is out of the list, marked 'sent', with its one call made
C32_Witness ==
    \E h \in Handles :
        /\ timers[h].pc = "done"
        /\ heap[h].status = "sent"
        /\ ~Listed(heap[h].id)
        /\ NumCallsBy(h) = 1
        /\ \E g \in Handles \ {h} :
              /\ timers[g].pc = "sending"
              /\ ~Listed(heap[g].id)

\* C33: under fair scheduling of the delivery tasks and send calls that
\* return or raise, a listed post with status 'scheduled' whose fire time
\* has come gets another status ('sent' or 'error') or leaves the list.
C33_ScheduledPostsLeaveScheduled ==
    \A h \in Handles :
        (/\ heap[h].status = "scheduled"
         /\ Listed(heap[h].id)
         /\ now >= heap[h].scheduled_time)
            ~> (heap[h].status \in {"sent", "error"} \/ ~Listed(heap[h].id))

\* a task that started after the fire time of its post did not sleep, its
\* send call raised and the post is marked 'error'; the task of another
\* post slept and its post is marked 'sent'
C33_Witness ==
    \E h \in Handles :
        /\ timers[h].pc = "done"
        /\ timers[h].wake_at = 0
        /\ heap[h].status = "error"
        /\ Listed(heap[h].id)
        /\ \E g \in Handles \ {h} :
              /\ timers[g].pc = "done"
              /\ timers[g].wake_at > 0
              /\ heap[g].status = "sent"

---------------------------------------------------------------------------
(* Properties of the post ids (specification SpecIds) *)

\* C11 as stated: no two post records ever created carry the same id, also
\* when an earlier post was removed by a cancel and when two posts are
\* created at the same reading of the clock.
C11_PostIdsUnique ==
    \A h, g \in 1..created : h # g => heap[h].id # heap[g].id

---------------------------------------------------------------------------
(* Properties of the admission checks (specification SpecAdmission) *)

\* C12: in every state the administrator passes the admission checks:
\* get_user_plan does not return the plan 'free', can_user_post is true and
\* the checks ahead of a channel registration pass, whatever the table
\* user_subscriptions holds for the administrator and however many channels
\* are registered; and a channel text of the administrator that reaches
\* the registration branch is registered.
C12_AdminAlwaysAdmitted ==
    /\ [](/\ get_user_plan(ADMIN_ID).plan # "free"
          /\ can_user_post(ADMIN_ID)
          /\ \A member \in BOOLEAN : can_add_channel(ADMIN_ID, member))
    /\ [][\A m \in ChannelMessages : \A member \in BOOLEAN :
             (/\ ~user_data[ADMIN_ID].waiting_for_custom_time
              /\ MessageHandler(ADMIN_ID, m, member))
                 => Strip(m.text) \in channels']_vars

\* the table holds an expired 'basic' subscription for the administrator,
\* two channels are registered (the plan allows one), and the
\* administrator's content has been accepted
C12_Witness ==
    /\ user_subscriptions[ADMIN_ID].plan = "basic"
    /\ is_subscription_expired(ADMIN_ID)
    /\ Cardinality(channels) = 2
    /\ user_data[ADMIN_ID].post_data # NoData

\* the limits of the subscription that get_user_plan returns for a user
\* are those of a trial: 6 posts a day and 3 channels
ResolvesToTrial(user_id) ==
    LET plan == get_user_plan(user_id).plan
    IN  /\ plan \in PlanKeys
        /\ subscription_plans[plan].posts_per_day = 6
        /\ subscription_plans[plan].channels_limit = 3

\* C13 as stated: for a user other than the administrator with no stored
\* subscription, get_user_plan never answers 'no subscription' (the plan
\* 'free'), and a /start of that user, which resolves the plan, leaves a
\* stored subscription with the limits of a trial.
C13_FirstResolveGrantsTrial ==
    /\ [](\A u \in Users \ {ADMIN_ID} : get_user_plan(u).plan # "free")
    /\ [][\A u \in Users \ {ADMIN_ID} :
             (user_subscriptions[u] = NoSubscription /\ Start(u))
                 => (/\ user_subscriptions'[u] # NoSubscription
                     /\ ResolvesToTrial(u)')]_vars

\* C14 as stated, for a user who never had a trial: when the stored
\* subscription of a user other than the administrator has expired, the
\* next resolve of the plan by /check_subscription replaces it with a
\* fresh subscription with the limits of a trial that has not expired.
C14_ExpiredBecomesTrial ==
    [][\A u \in Users \ {ADMIN_ID} : \A member \in BOOLEAN :
          (/\ user_subscriptions[u] # NoSubscription
           /\ is_subscription_expired(u)
           /\ CheckSubscription(u, member))
              => (/\ user_subscriptions'[u] # NoSubscription
                  /\ ~is_subscription_expired(u)'
                  /\ ResolvesToTrial(u)')]_vars

\* C16 as stated: for a user other than the administrator, get_user_plan
\* never returns a subscription whose expires_at is earlier than the
\* current time.
C16_NoExpiredPlanReturned ==
    \A u \in Users \ {ADMIN_ID} :
        get_user_plan(u).plan # "free" => get_user_plan(u).expires_at >= now

---------------------------------------------------------------------------
(* Properties of the channel table (specification SpecChannels) *)

\* the registered channels that a user registered: in SpecChannels a user
\* registers no channel but their own
OwnedBy(user_id) == {c \in channels : c = OwnChannel(user_id)}

\* C17 as stated: for a user other than the administrator who holds a
\* subscription that has not expired and is a member of the plan's private
\* channel, the checks ahead of a channel registration pass exactly when
\* the number of registered channels of that same user is below the plan's
\* channels_limit, or the plan has no limit; channels of other users do
\* not count.
C17_OwnChannelsCountAgainstLimit ==
    \A u \in Users \ {ADMIN_ID} :
        (/\ get_user_plan(u).plan # "free"
         /\ ~is_subscription_expired(u)
         /\ subscription_plans[get_user_plan(u).plan].channel_id # <<>>)
            => LET limit == subscription_plans[get_user_plan(u).plan]
                                .channels_limit
               IN  can_add_channel(u, TRUE)
                      <=> (limit = NoLimit \/ Cardinality(OwnedBy(u)) < limit)

\* C20 as stated: a registered channel that was registered by another
\* user is not in the channel list of a user other than the
\* administrator, select_channel_<id> of that user does not make it the
\* destination of a post, and delete_channel_<id> of that user leaves it
\* registered.
C20_ChannelsAreOwned ==
    [][\A u \in Users \ {ADMIN_ID} : \A c \in channels \ OwnedBy(u) :
          /\ c \notin list_channels_menu(u)
          /\ SelectChannel(u, c) => user_data'[u].selected_channel # c
          /\ DeleteChannel(u, c) => c \in channels']_vars

---------------------------------------------------------------------------
(* Properties of the daily quota (specification SpecQuota) *)

\* the counter of the user stands for the current day
CountedToday(u) ==
    user_stats[u].present /\ user_stats[u].last_reset = DateOf(now)

\* C18 as stated: for a user with a subscription that has not expired,
\* can_user_post is false when the counter of the current day has reached
\* posts_per_day on a plan with a finite limit, and true for every count
\* on a plan whose posts_per_day is -1.
C18_QuotaDecidesPosting ==
    \A u \in Users \ {ADMIN_ID} :
        (get_user_plan(u).plan # "free" /\ ~is_subscription_expired(u))
            => LET cfg == subscription_plans[get_user_plan(u).plan]
               IN  /\ (/\ cfg.posts_per_day # NoLimit
                       /\ CountedToday(u)
                       /\ user_stats[u].posts_today >= cfg.posts_per_day)
                          => ~can_user_post(u)
                   /\ cfg.posts_per_day = NoLimit => can_user_post(u)

\* what can_user_post does: on a plan whose posts_per_day is -1 it is true
\* exactly when the plan's channels_limit is -1 or above the number of
\* registered channels of all users; on a plan with a finite limit it is
\* false when the counter of the current day has reached posts_per_day.
CanUserPostCountsChannels ==
    \A u \in Users \ {ADMIN_ID} :
        (get_user_plan(u).plan # "free" /\ ~is_subscription_expired(u))
            => LET cfg == subscription_plans[get_user_plan(u).plan]
               IN  /\ (/\ cfg.posts_per_day # NoLimit
                       /\ CountedToday(u)
                       /\ user_stats[u].posts_today >= cfg.posts_per_day)
                          => ~can_user_post(u)
                   /\ cfg.posts_per_day = NoLimit
                          => (can_user_post(u)
                                <=> (\/ cfg.channels_limit = NoLimit
                                     \/ Cardinality(channels)
                                           < cfg.channels_limit))

\* C28: for a user other than the administrator whose subscription has
\* not expired, can_user_post is true whenever the count of the current day
\* is below posts_per_day (or posts_per_day is -1), whatever the number of
\* registered channels, also once the channels have reached the plan's
\* channels_limit.
C28_ChannelsDoNotDecidePosting ==
    \A u \in Users \ {ADMIN_ID} :
        (get_user_plan(u).plan # "free" /\ ~is_subscription_expired(u))
            => LET cfg == subscription_plans[get_user_plan(u).plan]
               IN  (\/ cfg.posts_per_day = NoLimit
                    \/ StatsForToday(user_stats[u]).posts_today
                            < cfg.posts_per_day)
                       => can_user_post(u)

\* C19 as stated: when publish_now records a post of a user other than
\* the administrator, the counter is first set to zero if its last_reset
\* is not the current day (or the user has no counter yet), and then
\* incremented: afterwards it counts the posts recorded on the current
\* day.
C19_IncrementResetsOnNewDay ==
    [][\A u \in Users \ {ADMIN_ID} :
          (/\ user_data[u].post_data # NoData
           /\ user_data[u].selected_channel # <<>>
           /\ PublishNow(u, TRUE))
              => user_stats'[u].posts_today =
                     IF CountedToday(u)
                     THEN user_stats[u].posts_today + 1 ELSE 1]_vars

\* the posts that user u created with the time menu on calendar day d: a
\* post is created scheduled_time - now = 60 * time_minutes seconds ahead
\* of its scheduled time
PostsCreatedOn(u, d) ==
    Cardinality({h \in 1..created :
                    /\ heap[h].user_id = u
                    /\ \E t \in TimeMenu :
                          DateOf(heap[h].scheduled_time - 60 * t) = d})

\* the calendar days of the model
Days == 0..MaxTicks

\* C29: a user other than the administrator, on a plan with a finite
\* posts_per_day that has not changed since the user's first post, has
\* created on no calendar day more posts than posts_per_day, also when the
\* content was accepted before midnight and the time was chosen after it.
C29_DailyLimitBoundsPosts ==
    \A u \in Users \ {ADMIN_ID}, d \in Days :
        LET plan == get_user_plan(u).plan
        IN  (plan # "free" /\ subscription_plans[plan].posts_per_day # NoLimit)
                => PostsCreatedOn(u, d) <= subscription_plans[plan].posts_per_day

\* user u has reached the counter of can_user_post and the counter refuses
AtDailyLimit(u) == ReachesCounter(u) /\ ~can_user_post(u)

\* post h is listed, still 'scheduled', owned by u and was created today
\* with the time menu
ScheduledToday(u, h) ==
    /\ h \in 1..created
    /\ heap[h].user_id = u
    /\ heap[h].status = "scheduled"
    /\ Listed(heap[h].id)
    /\ \E t \in TimeMenu : DateOf(heap[h].scheduled_time - 60 * t) = DateOf(now)

\* C31 as stated: when a user at the daily limit cancels one of today's
\* still-scheduled posts of their own, can_user_post is true again.
C31_CancelGivesPostBack ==
    [][\A u \in Users, h \in Handles :
          (/\ AtDailyLimit(u)
           /\ ScheduledToday(u, h)
           /\ CancelScheduledPost(u, heap[h].id))
              => can_user_post(u)']_vars

---------------------------------------------------------------------------
(* Properties of the composer dialogue (specification SpecComposer) *)

\* a time choice of user u: a relative offset, publish-now, or a message
\* while a custom time is awaited
TimeChoice(u) ==
    \/ \E t \in TimeMenu : SchedulePost(u, t)
    \/ \E ok \in BOOLEAN : PublishNow(u, ok)
    \/ /\ user_data[u].waiting_for_custom_time
       /\ \E m \in DialogueMessages : MessageHandler(u, m, FALSE)

\* C21: a message of a user who has no channel selected is not stored as
\* pending content; and a time choice (relative offset, publish-now or
\* custom time) of a user without pending content or without a selected
\* channel creates no post, starts no delivery task, makes no call on the
\* send interface and counts nothing.
C21_OutOfOrderInputMakesNoPost ==
    [][\A u \in Users :
          /\ (/\ user_data[u].selected_channel = <<>>
              /\ \E m \in DialogueMessages : MessageHandler(u, m, FALSE))
                 => user_data'[u].post_data = NoData
          /\ (/\ user_data[u].post_data = NoData
                   \/ user_data[u].selected_channel = <<>>
              /\ TimeChoice(u))
                 => /\ UNCHANGED storeVars
                    /\ sends' = sends
                    /\ user_stats' = user_stats]_vars

\* a custom time that could be scheduled was sent with nothing to
\* schedule: the answer is 'no data', no post was ever created and no call
\* made
C21_Witness ==
    /\ custom_time_reply = "no_data"
    /\ created = 0
    /\ sends = EmptyBag
    /\ \A u \in Users : user_data[u].post_data = NoData

\* C22 as stated: after a relative-offset schedule, a custom-time schedule
\* or a publish-now whose send call returned, each with content and a
\* channel pending, and after /start, the user's composer state is empty:
\* no selected_channel, no post_data, neither flag set.
C22_HandoffClearsComposer ==
    [][\A u \in Users :
          (\/ Start(u)
           \/ /\ user_data[u].post_data # NoData
              /\ user_data[u].selected_channel # <<>>
              /\ \/ \E t \in TimeMenu : SchedulePost(u, t)
                 \/ PublishNow(u, TRUE)
                 \/ /\ user_data[u].waiting_for_custom_time
                    /\ created' # created
                    /\ \E m \in DialogueMessages : MessageHandler(u, m, FALSE))
              => user_data'[u] = EmptyUserData]_vars

\* C30: a time choice (relative offset, publish-now or custom time) of a
\* user other than the administrator who at that moment has no
\* subscription, or an expired one, creates no post and makes no call on
\* the send interface.
C30_TimeChoiceNeedsSubscription ==
    [][\A u \in Users \ {ADMIN_ID} :
            (/\ \/ get_user_plan(u).plan = "free"
                \/ is_subscription_expired(u)
             /\ TimeChoice(u))
                => created' = created /\ sends' = sends]_vars

---------------------------------------------------------------------------
(* Properties of the channel texts (specification SpecChannelText) *)

\* messages whose text starts with '@' or '-100'
ChannelTexts ==
    {m \in ChannelTextMessages :
        StartsWith(m.text, <<"@">>) \/ StartsWith(m.text, <<"-", "1", "0", "0">>)}

\* the step registers the channel of message m where the checks of
\* message_handler admit user u, and changes neither the composer state of
\* any user nor the post store
RegistersOnly(u, m, member) ==
    /\ channels' = IF can_add_channel(u, member)
                   THEN channels \cup {Strip(m.text)} ELSE channels
    /\ user_data' = user_data
    /\ scheduled_posts' = scheduled_posts
    /\ heap' = heap

\* an earlier branch of message_handler takes the message of user u: plan
\* settings of four fields awaited from u, the administrator's broadcast,
\* or a custom time awaited from u
TakenEarlier(u, m) ==
    \/ /\ waiting_for_plan_settings # NoPlanSettings
       /\ waiting_for_plan_settings.user_id = u
       /\ Len(Split(Strip(m.text), "|")) >= 4
    \/ waiting_for_broadcast /\ u = ADMIN_ID
    \/ user_data[u].waiting_for_custom_time

\* C34 as stated: a text that starts with '@' or '-100' is always handled
\* as a channel registration, never becomes post content, and leaves the
\* composer state unchanged.
C34_ChannelTextAlwaysRegisters ==
    [][\A u \in Users, m \in ChannelTexts, member \in BOOLEAN :
          MessageHandler(u, m, member) => RegistersOnly(u, m, member)]_vars

\* C34 as amended: a text that starts with '@' or '-100' and is not taken
\* by an earlier branch of message_handler (plan settings of four fields,
\* the administrator's broadcast, a custom time) is handled as a channel
\* registration, also while content is awaited for a selected channel; it
\* never becomes post content and leaves the composer state unchanged.
C34_ChannelTextRegistersUnlessTaken ==
    [][\A u \in Users, m \in ChannelTexts, member \in BOOLEAN :
          (~TakenEarlier(u, m) /\ MessageHandler(u, m, member))
              => RegistersOnly(u, m, member)]_vars

\* a user for whom content is awaited for the selected channel @a has
\* registered the channel -1007, and no content has been taken
C34_Witness ==
    \E u \in Users :
        /\ user_data[u].waiting_for_content
        /\ user_data[u].selected_channel = ChanA
        /\ user_data[u].post_data = NoData
        /\ ~user_data[u].waiting_for_custom_time
        /\ channels = {ChanB}

---------------------------------------------------------------------------
(* Properties of the broadcast (specification SpecBroadcast) *)

\* number of send calls of the last broadcast to user u
BroadcastCallsTo(u) ==
    SumCopies(broadcast_calls, {c \in BagToSet(broadcast_calls) : c.chat_id = u})

\* C23 as stated: a message of the administrator while a broadcast is
\* awaited makes one send call for every recipient (every user with a
\* subscription or a listed post), whether or not calls for other
\* recipients raise, and none for anybody else; the counts it reports add
\* up to the number of recipients.
C23_BroadcastReachesEveryone ==
    [][\A m \in {TextMessage(TextHi), StickerMessage} :
          (waiting_for_broadcast /\ MessageHandler(ADMIN_ID, m, FALSE))
              => /\ \A u \in Users :
                      BroadcastCallsTo(u)' = IF u \in all_users THEN 1 ELSE 0
                 /\ broadcast_reply'.success_count + broadcast_reply'.error_count
                       = Cardinality(all_users)]_vars

\* C35 as stated: the first message of the administrator after the
\* broadcast menu was opened is the one that is broadcast and clears
\* waiting_for_broadcast; a message of another user changes nothing of the
\* broadcast; and with the flag cleared a message of the administrator is
\* not broadcast.
C35_FirstAdminMessageIsBroadcast ==
    [][\A m \in TwoDialogueMessages :
          /\ (waiting_for_broadcast /\ MessageHandler(ADMIN_ID, m, FALSE))
                => ~waiting_for_broadcast'
          /\ \A u \in Users \ {ADMIN_ID} :
                MessageHandler(u, m, FALSE) => UNCHANGED broadcastVars
          /\ (~waiting_for_broadcast /\ MessageHandler(ADMIN_ID, m, FALSE))
                => UNCHANGED broadcastVars]_vars

---------------------------------------------------------------------------
(* Properties of the tariffs (specifications SpecQuota and SpecRouter) *)

\* a step of a user who is no administrator of the channel bot: /setup, the
\* plan menu of the admin panel, or a message
StepOfUser(u) ==
    \/ \E p \in PlanKeys, c \in ChannelIds \cup {PrivChan} : SetupChannel(u, p, c)
    \/ \E p \in PlanKeys : AdminEditPlanMenu(u, p)
    \/ \E m \in QuotaMessages, member \in BOOLEAN : MessageHandler(u, m, member)

\* In the channel bot no step of a user who is no administrator changes a
\* field of a plan.
PlansChangeByAdminOnly ==
    [][\A u \in Users \ {ADMIN_ID} :
            StepOfUser(u) => subscription_plans' = subscription_plans]_vars

\* a message or a callback of a user of the aiogram router
StepOfRouterUser(u) ==
    \/ \E t \in UserTexts : RouterMessage(u, t)
    \/ \E member \in BOOLEAN : CheckSubscriptionCallback(u, member)

\* C24: tariffs are changed by the administrator only.  No step of a user
\* who is no administrator changes a field of a plan of the channel bot,
\* and no message or callback of a user who is not in admin_ids changes a
\* field or the active flag of a row of table tariffs.
C24_OnlyAdminChangesTariffs ==
    [][/\ \A u \in Users \ {ADMIN_ID} :
            StepOfUser(u) => subscription_plans' = subscription_plans
       /\ \A u \in RouterUsers \ admin_ids :
            StepOfRouterUser(u) =>
                \A i \in TariffIds : db_tariffs'[i] = db_tariffs[i]]_vars

---------------------------------------------------------------------------
(* Properties of the tariff dialogues (specification SpecRouter) *)

\* C36 as stated: in state waiting_for_tariff_for_channel an all-digit
\* message of the administrator with the id of an active tariff binds the
\* channel of the dialogue to that tariff (add_monitored_channel) and
\* leaves the tariff table as it is: the tariff stays active.
C36_DigitsBindChannelToTariff ==
    [][\A u \in RouterUsers \cap admin_ids, t \in RouterTexts :
          (/\ fsm[u].state = "ChannelStates:waiting_for_tariff_for_channel"
           /\ t # <<>> /\ AllDigits(t)
           /\ ToInt(t) \in get_tariffs
           /\ RouterMessage(u, t))
              => /\ db_monitored_channels' =
                       add_monitored_channel(fsm[u].data.channel_id, ToInt(t))
                 /\ db_tariffs' = db_tariffs]_vars

\* the value that the edit dialogue of `field' accepts in text t
ValidEditValue(field, t) ==
    IF field \in {"limit", "duration"} THEN IntOf(t).ok /\ IntOf(t).v > 0
    ELSE IF field = "link" THEN IsLink(t)
    ELSE TRUE

\* table tariffs with the column that `field' stands for set to the value
\* of text t in row tariff_id
TariffsWithField(tariff_id, field, t) ==
    CASE field = "name" -> [db_tariffs EXCEPT ![tariff_id].name = t]
      [] field = "link" -> [db_tariffs EXCEPT ![tariff_id].channel_link = t]
      [] field = "limit" ->
            [db_tariffs EXCEPT ![tariff_id].message_limit = IntOf(t).v]
      [] field = "duration" ->
            [db_tariffs EXCEPT ![tariff_id].duration_days = IntOf(t).v]

\* C37 as stated: the answer to the value question of the edit dialogue,
\* for an existing tariff, sets exactly the chosen field of that tariff to
\* the new value and ends the dialogue when the value is valid; an invalid
\* value changes nothing and the dialogue stays at the value question.
C37_EditChangesChosenField ==
    [][\A u \in RouterUsers \cap admin_ids, t \in EditTexts :
          (/\ fsm[u].state = "TariffStates:waiting_for_edit_tariff_value"
           /\ fsm[u].data.tariff_id \in TariffIds
           /\ RouterMessage(u, t))
              => IF ValidEditValue(fsm[u].data.edit_field, t)
                 THEN /\ db_tariffs' = TariffsWithField(fsm[u].data.tariff_id,
                                                       fsm[u].data.edit_field, t)
                      /\ fsm'[u].state = "none"
                 ELSE /\ db_tariffs' = db_tariffs
                      /\ fsm'[u] = fsm[u]]_vars

---------------------------------------------------------------------------
(* Properties of the activation of subscriptions (specifications           *)
(* SpecPurchase and SpecRouter)                                            *)

\* a step that gives user u a subscription through the administrator's
\* grant or through the check that found u in the channel of the plan
GrantOrMembership(u) ==
    \/ \E p \in PlanKeys : AdminSetSubscription(ADMIN_ID, u, p)
    \/ \E p \in PlanKeys : ConfirmSubscription(u, p, "member")

\* In the channel bot every step that creates or replaces the subscription
\* of a user who is no administrator is a grant of the administrator or a
\* check that found the user in the channel of the plan.
BotActivationNeedsGrantOrMembership ==
    [][\A u \in Users \ {ADMIN_ID} :
            /\ user_subscriptions'[u] # user_subscriptions[u]
            /\ user_subscriptions'[u] # NoSubscription
            => GrantOrMembership(u)]_vars

\* C25: the subscription of a user who is no administrator is created or
\* replaced only by a grant of the administrator or by a check that found
\* the user in the channel of the tariff: in the channel bot every such
\* step is one of the two, and in the aiogram router, which has no grant,
\* the subscription check of a user who is not in the channel leaves the
\* user's row as it is.
C25_ActivationNeedsGrantOrMembership ==
    [][/\ \A u \in Users \ {ADMIN_ID} :
            /\ user_subscriptions'[u] # user_subscriptions[u]
            /\ user_subscriptions'[u] # NoSubscription
            => GrantOrMembership(u)
       /\ \A u \in RouterUsers \ admin_ids :
            CheckSubscriptionCallback(u, FALSE) => db_users'[u] = db_users[u]]_vars

\* the user holds a running subscription to a plan whose channel is set
HoldsGatedPlan(u) ==
    /\ get_user_plan(u).plan # "free"
    /\ ~is_subscription_expired(u)
    /\ subscription_plans[get_user_plan(u).plan].channel_id # <<>>

\* C26: where /check cannot ask about the membership because the bot was
\* removed from the channel of the plan or cannot see it, the failure is a
\* matter of configuration: the administrator is alerted and the stored
\* subscription of the user stays.
C26_NoAccessIsNotBlamedOnUser ==
    [][\A u \in Users \ {ADMIN_ID}, o \in BotLacksAccess :
            HoldsGatedPlan(u) /\ CheckSubscription(u, IsMember(o))
            => /\ user_subscriptions'[u] = user_subscriptions[u]
               /\ admin_alerts' # admin_alerts]_vars

\* the plans whose private channel is not set
UnsetPlans == {p \in PlanKeys : subscription_plans[p].channel_id = <<>>}

\* for a plan without a channel create_invite_link returns None and calls
\* the platform for nothing, whatever the platform would answer
NoLinkWithoutChannel ==
    \A p \in UnsetPlans, u \in Users, b \in BotStatuses, l \in LinkResults :
        LET made == create_invite_link(p, u, b, l)
        IN  ~made.link /\ made.calls = {} /\ made.alerts = {}

\* C27: for a plan whose channel id is not set, create_invite_link returns
\* None without a call to the platform, the subscribe menu shows that the
\* channel is not configured and stores no link, and the check of the
\* purchase activates no subscription, whatever the platform would answer.
C27_UnsetChannelSellsNothing ==
    /\ []NoLinkWithoutChannel
    /\ [][\A p \in UnsetPlans, u \in Users :
            /\ (\E b \in BotStatuses, l \in LinkResults : SubscribeMenu(u, p, b, l))
               => /\ subscribe_reply'.outcome = "not configured"
                  /\ invite_links' = invite_links
                  /\ admin_alerts' = admin_alerts
            /\ (\E o \in ChatMemberOutcomes : ConfirmSubscription(u, p, o))
               => user_subscriptions' = user_subscriptions]_vars

\* C27, witness: a user without a subscription was shown the menu of a plan
\* without a channel, and the channel of another plan is set
C27_Witness ==
    /\ subscribe_reply.outcome = "not configured"
    /\ subscribe_reply.plan_type \in UnsetPlans
    /\ subscribe_reply.user_id = User1
    /\ user_subscriptions[User1] = NoSubscription
    /\ UnsetPlans # PlanKeys

\* C38 as stated: a tariff given to a user by the subscription check is a
\* tariff that get_tariffs lists as active at that moment; a deactivated
\* tariff is given to nobody.
C38_OnlyActiveTariffsGranted ==
    [][\A u \in RouterUsers, member \in BOOLEAN :
          (/\ CheckSubscriptionCallback(u, member)
           /\ db_users'[u].tariff_id # db_users[u].tariff_id)
              => db_users'[u].tariff_id \in get_tariffs]_vars

---------------------------------------------------------------------------
(* Properties of table users (specification SpecUsers) *)

MessagesLeftNotNegative ==
    \A u \in RouterUsers : db_users[u].messages_left >= 0

\* C39: in table users messages_left is never negative, whatever the order
\* of add_user, update_user_tariff, decrement_user_messages and
\* check_subscription_expiry; decrement_user_messages lowers it by one
\* where it is greater than zero and leaves the row as it is otherwise,
\* and it changes nothing else.
C39_MessagesLeftNeverNegative ==
    /\ []MessagesLeftNotNegative
    /\ [][\A u \in RouterUsers :
             DecrementUserMessages(u)
                => db_users' =
                     [db_users EXCEPT ![u].messages_left =
                         IF db_users[u].messages_left > 0
                         THEN db_users[u].messages_left - 1
                         ELSE db_users[u].messages_left]]_vars

\* a user holds a tariff of two messages and has none of them left: the
\* counter has come down to zero, where a further decrement_user_messages
\* finds no row to update
C39_Witness ==
    \E u \in RouterUsers :
        /\ db_users[u].present
        /\ db_users[u].tariff_id \in TariffIds
        /\ db_tariffs[db_users[u].tariff_id].message_limit = 2
        /\ db_users[u].messages_left = 0
        /\ decrement_user_messages(u) = db_users

---------------------------------------------------------------------------
(* Properties of the custom time (specification SpecCustomTime) *)

\* C9: a custom time text that parses to a time less than 60 seconds after
\* the current Moscow time, a past time included, is rejected: no post is
\* appended, no delivery task is started and no daily counter changes.
C9_TooSoonIsRejected ==
    [][\A u \in Users : \A m \in ComposerMessages :
          (/\ user_data[u].waiting_for_custom_time
           /\ m.text # <<>>
           /\ parse_custom_time(Strip(m.text)).ok
           /\ parse_custom_time(Strip(m.text)).t - now < MinLeadSeconds
           /\ MessageHandler(u, m, FALSE))
              => /\ scheduled_posts' = scheduled_posts
                 /\ heap' = heap
                 /\ created' = created
                 /\ stamp' = stamp
                 /\ timers' = timers
                 /\ user_stats' = user_stats]_vars

\* a subscriber with content and a channel pending was told that the time
\* is too soon, half a minute after the epoch (the text names a time 30
\* seconds ahead, or the past date), and nothing was scheduled
C9_Witness ==
    /\ custom_time_reply = "too_soon"
    /\ now > 0
    /\ created = 0
    /\ user_stats[User1].present
    /\ user_data[User1].post_data # NoData
    /\ user_data[User1].selected_channel # <<>>
    /\ ~user_data[User1].waiting_for_custom_time

---------------------------------------------------------------------------
(* Properties of publish-now (specification SpecPublish) *)

\* what publish_now does for user u when content and a channel are pending:
\* one call on the send interface, now, with the selected channel and the
\* pending content
PublishesOnce(u) ==
    sends' = sends (+) SetToBag({SendCall(0, user_data[u].selected_channel,
                                          user_data[u].post_data, now)})

\* C10 as stated: publish_now with content and a channel pending makes one
\* call on the send interface, at once, with the selected channel and the
\* content, and when the call returns it adds one to the user's daily
\* counter.
C10_PublishNowCounts ==
    [][\A u \in Users : \A ok \in BOOLEAN :
          (/\ user_data[u].post_data # NoData
           /\ user_data[u].selected_channel # <<>>
           /\ PublishNow(u, ok))
              => /\ PublishesOnce(u)
                 /\ ok => user_stats'[u].posts_today
                             = user_stats[u].posts_today + 1]_vars

\* C10 as amended: publish_now with content and a channel pending makes one
\* call on the send interface, at once, with the selected channel and the
\* content; when the call returns it adds one to the daily counter of a
\* user who is not the administrator, and leaves the counters alone for the
\* administrator; when the call raises no counter changes.
C10_PublishNowCountsSubscribers ==
    [][\A u \in Users : \A ok \in BOOLEAN :
          (/\ user_data[u].post_data # NoData
           /\ user_data[u].selected_channel # <<>>
           /\ PublishNow(u, ok))
              => /\ PublishesOnce(u)
                 /\ (ok /\ ~is_admin(u))
                       => /\ user_stats'[u].present
                          /\ user_stats'[u].posts_today
                                = user_stats[u].posts_today + 1
                 /\ (~ok \/ is_admin(u)) => user_stats' = user_stats
                 /\ \A v \in Users \ {u} : user_stats'[v] = user_stats[v]]_vars

\* every publish-now call so far was the subscriber's and returned: the
\* subscriber's counter stands at the number of calls
C10_Witness ==
    /\ NumCallsBy(0) = MaxPublish
    /\ user_stats[User1].posts_today = MaxPublish
    /\ user_data[User1].post_data = NoData

=============================================================================
